---- MODULE Spec2Model ----
(***************************************************************************)
(* Verification model of the annotation tools of htt2_classification:      *)
(*   scripts/convert_voc_to_yolo_with_splits.py  (VOC XML -> YOLO labels)   *)
(*   scripts/split_dataset.py                    (ratio-based split)        *)
(*   scripts/check_dataset.py                    (YOLO dataset checker)     *)
(*                                                                         *)
(* The converter is modelled at three levels that share their operators:   *)
(*   SpecObject   one <object> of an annotation, wide coordinate range      *)
(*   SpecFile     one annotation file (one iteration of process_split)      *)
(*   SpecConvert  a whole run of convert_voc_to_yolo_final                  *)
(* SpecSplit models split_yolo_dataset, SpecCheck models                    *)
(* check_yolo_dataset and its command line, SpecFix the box repair          *)
(* functions of scripts/fix_invalid_bbox.py and scripts/fix_voc_labels.py,  *)
(* SpecInfer the PCB status rule of src/infer.py, SpecBatch its             *)
(* predict_batch, SpecTrain the Trainer of src/train.py.                    *)
(*                                                                         *)
(* Numbers: pixel coordinates are integers; a Python float that is a       *)
(* quotient of integers is kept as an exact fraction <<num, den>>, den > 0; *)
(* a value printed with "%.6f" is the integer number of millionths it      *)
(* prints (0.300000 is 300000).                                             *)
(***************************************************************************)
EXTENDS Integers, Sequences, FiniteSets, TLC

VARIABLES
    \* SpecObject: one object of one annotation
    img_size,      \* <<img_width, img_height>> of the annotation
    obj,           \* the <object> element
    obj_result,    \* kind "pending", or what the loop body did with obj
    voc_check,     \* kind "pending", or what check_voc_dataset did with obj
    \* SpecFile: one annotation file
    xml_file,      \* the annotation file of the iteration and whether its
                   \* image exists
    file_result,   \* step "pending", or what the iteration left behind
    \* SpecConvert: a run of convert_voc_to_yolo_final
    voc_annotations,  \* sample key -> annotation file (voc_annotations_dir)
    voc_images,       \* the image file names in voc_images_dir
    imagesets,        \* train.txt and val.txt: whether each exists, its lines
    file_list,        \* train_files and val_files once read
    out_dirs,         \* the four output directories exist
    out_labels,       \* split -> sample key -> label file
    out_images,       \* split -> image file names copied
    processed_count,  \* split -> processed_count of its process_split call
    conv_pc,          \* "start", "train", "val", "done" or "failed"
    file_idx,         \* position of the loop at line 78 in the current list
    \* SpecSplit: split_yolo_dataset
    input_images,     \* the files of input_dir/images, as <<base name, extension>>
    input_labels,     \* the base names of the .txt files of input_dir/labels
    ratios,           \* <<train_ratio, val_ratio, test_ratio>> in millionths
    split_files,      \* train_files, val_files, test_files
    split_out,        \* split -> images and labels copied to output_dir
    split_pc,         \* "start", "copy", "done" or "failed"
    copy_pos,         \* <<split number, position in its list>> of the copy loop
    input_read,       \* os.listdir(input_images_dir) has been called
    invocation,       \* 1 for the first invocation, 2 for a repeated one
    first_files,      \* the split lists of the first invocation, as sets
    \* SpecCheck: check_yolo_dataset and main of check_dataset.py
    images_dir,       \* data_dir/images: whether it exists, its file names
    labels_dir,       \* data_dir/labels: whether it exists, its file names and
                      \* what a.txt and b.txt hold
    image_files,      \* the set of line 43
    label_files,      \* the set of line 45
    missing_images,   \* label_files - image_files
    missing_labels,   \* image_files - label_files
    common_files,     \* image_files & label_files
    unchecked,        \* the members of common_files the loop has yet to visit
    class_distribution,  \* the Counter of line 74, class id -> count
    error_files,      \* the list of line 76
    success,          \* "unset", or the value check_yolo_dataset returned
    exit_code,        \* -1, or the status main exited with
    check_pc,         \* "start", "scan", "returned" or "exited"
    \* SpecFix: the box repair functions on one annotation file
    fix_xml,          \* the annotation file: whether it parses, its size, the
                      \* bndbox of each of its objects
    fix_source,       \* the file as it was before the first call
    fix_returned,     \* "unset", or what the last call returned
    fix_written,      \* the last call wrote the file (tree.write)
    fix_log,          \* the calls made so far, "advanced" or "basic"
    \* SpecInfer: Inference._analyze_pcb_status of src/infer.py
    result,           \* the detection result: whether result.boxes is there
                      \* (not None), and the class id of each box
    pcb_status,       \* "pending", or the status returned
    \* SpecBatch: Inference.predict_batch of src/infer.py
    batch_images,     \* image_files: for each image whether the prediction
                      \* and the drawing go through, and the detection result
    batch_idx,        \* the place of the loop in image_files
    status_count,     \* the dict of line 100
    batch_errors,     \* how often the except branch of line 111 was taken
    batch_pc,         \* "start", "loop", "returned" or "returned None"
    \* SpecTrain: a Trainer object of src/train.py
    trainer_config,   \* self.config: which of the sections and keys that
                      \* setup_training, train and export_model read are there
    trainer_model,    \* self.model: "None" or "YOLO"
    setup_completed,  \* a call of setup_training has returned
    trainer_log       \* the calls made so far and how each ended

objVars == <<img_size, obj, obj_result, voc_check>>
fileVars == <<xml_file, file_result>>
convInputs == <<voc_annotations, voc_images, imagesets>>
convVars == <<voc_annotations, voc_images, imagesets, file_list, out_dirs,
              out_labels, out_images, processed_count, conv_pc, file_idx>>
splitInputs == <<input_images, input_labels, ratios>>
splitVars == <<input_images, input_labels, ratios, split_files, split_out,
               split_pc, copy_pos, input_read, invocation, first_files>>
checkInputs == <<images_dir, labels_dir>>
checkVars == <<images_dir, labels_dir, image_files, label_files,
               missing_images, missing_labels, common_files, unchecked,
               class_distribution, error_files, success, exit_code, check_pc>>
fixVars == <<fix_xml, fix_source, fix_returned, fix_written, fix_log>>
inferVars == <<result, pcb_status>>
batchVars == <<batch_images, batch_idx, status_count, batch_errors, batch_pc>>
trainVars == <<trainer_config, trainer_model, setup_completed, trainer_log>>
vars == <<objVars, fileVars, convVars, splitVars, checkVars, fixVars, inferVars,
          batchVars, trainVars>>

-----------------------------------------------------------------------------
(* Bounds of the model *)

\* image sizes are -1..MaxDim pixels, coordinates -1..MaxDim+1
MaxDim == 4
\* an annotation file holds at most MaxObjs objects
MaxObjs == 3
\* a split list file holds at most MaxList lines
MaxList == 2
\* input_dir/images holds at most MaxSamples sample keys
MaxSamples == 4
\* the label file a.txt holds at most MaxLines lines
MaxLines == 2
\* the repair functions are called at most MaxRuns times on a file
MaxRuns == 2
\* a detection result holds at most MaxDet boxes
MaxDet == 3
\* predict_batch finds at most MaxBatch images in the directory
MaxBatch == 3
\* at most MaxCalls methods of a Trainer are called
MaxCalls == 3

-----------------------------------------------------------------------------
(* The class table.  The source names are                                  *)
(*   0 "控制适应标识"  1 "无螺丝"  2 "有螺丝"  3 "电路板"                       *)
(* written here with the glosses of the specification.                     *)

CLASS_MAPPING ==
    [id \in 0..3 |->
        CASE id = 0 -> "fiducial marker"
          [] id = 1 -> "missing fastener"
          [] id = 2 -> "present fastener"
          [] id = 3 -> "board body"]

\* process_split, lines 115-119: the first id whose name equals cls_name,
\* None (here -1) when there is none
NoClass == -1
LookupClass(cls_name) ==
    IF \E id \in DOMAIN CLASS_MAPPING : CLASS_MAPPING[id] = cls_name
    THEN CHOOSE id \in DOMAIN CLASS_MAPPING :
            /\ CLASS_MAPPING[id] = cls_name
            /\ \A j \in DOMAIN CLASS_MAPPING : CLASS_MAPPING[j] = cls_name => id <= j
    ELSE NoClass

-----------------------------------------------------------------------------
(* Arithmetic of the normalisation *)

\* Clamp01 without the upper limit
Clamp01_NoUpper(n, d) ==
    IF n > 0 THEN <<n, d>> ELSE <<0, 1>>

\* max(0.0, min(1.0, x)) on the fraction n/d, d > 0 (lines 142-145)
Clamp01(n, d) ==
    LET m == IF n < d THEN <<n, d>> ELSE <<1, 1>>     \* min(1.0, x)
    IN  IF m[1] > 0 THEN m ELSE <<0, 1>>              \* max(0.0, m)

Million == 1000000

\* Format6 cutting the digits after the sixth instead of rounding
Format6_Truncate(n, d) ==
    (n * Million) \div d

\* f"{x:.6f}" of the fraction n/d, d > 0: the nearest multiple of 1e-6,
\* ties to even, as a number of millionths
Format6(n, d) ==
    LET s == n * Million
        q == s \div d
        r == s % d
    IN  IF 2 * r < d THEN q
        ELSE IF 2 * r > d THEN q + 1
        ELSE IF q % 2 = 0 THEN q ELSE q + 1

\* the quotient n/d, d # 0, as a fraction with a positive denominator
Quotient(n, d) == IF d < 0 THEN <<0 - n, 0 - d>> ELSE <<n, d>>

\* NormalizeBox that takes the left and upper edge for the centre
NormalizeBox_EdgeAsCentre(box, w, h) ==
    LET xc == Quotient(box[1], w)
        yc == Quotient(box[2], h)
        bw == Quotient(box[3] - box[1], w)
        bh == Quotient(box[4] - box[2], h)
        x_center == Clamp01(xc[1], xc[2])
        y_center == Clamp01(yc[1], yc[2])
        width == Clamp01(bw[1], bw[2])
        height == Clamp01(bh[1], bh[2])
    IN  << Format6(x_center[1], x_center[2]), Format6(y_center[1], y_center[2]),
           Format6(width[1], width[2]), Format6(height[1], height[2]) >>

\* lines 136-147 for one box: the four printed components; the image size
\* is any integer but 0, int() accepts a negative width or height
NormalizeBox(box, w, h) ==
    LET xmin == box[1]
        ymin == box[2]
        xmax == box[3]
        ymax == box[4]
        xc == Quotient(xmin + xmax, 2 * w)
        yc == Quotient(ymin + ymax, 2 * h)
        bw == Quotient(xmax - xmin, w)
        bh == Quotient(ymax - ymin, h)
        x_center == Clamp01(xc[1], xc[2])
        y_center == Clamp01(yc[1], yc[2])
        width == Clamp01(bw[1], bw[2])
        height == Clamp01(bh[1], bh[2])
    IN  << Format6(x_center[1], x_center[2]), Format6(y_center[1], y_center[2]),
           Format6(width[1], width[2]), Format6(height[1], height[2]) >>

-----------------------------------------------------------------------------
(* One <object> element *)

NoElement == "NoElement"    \* obj.find('name') returns None
NoBox == <<>>               \* obj.find('bndbox') returns None
BadBox == <<"bad">>         \* a bndbox with a field absent or not a number

\* the body of the object loop (lines 112-147) for one object:
\*   skip   the object is passed over with a warning (continue)
\*   raise  an exception leaves the loop (caught at line 156)
\*   line   one label line <<cls_id, x_center, y_center, width, height>>
ConvertObject(o, w, h) ==
    IF o.name = NoElement THEN [kind |-> "raise"]          \* None.text
    ELSE IF LookupClass(o.name) = NoClass THEN [kind |-> "skip"]
    ELSE IF o.bndbox = NoBox THEN [kind |-> "skip"]
    ELSE IF o.bndbox = BadBox THEN [kind |-> "raise"]
    ELSE IF w = 0 \/ h = 0 THEN [kind |-> "raise"]         \* division by zero
    ELSE [kind |-> "line",
          line |-> <<LookupClass(o.name)>> \o NormalizeBox(o.bndbox, w, h)]

-----------------------------------------------------------------------------
(* One annotation file: one iteration of the loop of process_split *)

NoSize == <<>>              \* root.find('size') returns None
BadSize == <<"bad">>        \* width or height absent or not an integer
NoText == "NoText"          \* <filename/> without text

\* An annotation file as process_split sees it:
\*   exists       os.path.exists(xml_path)
\*   parses       ET.parse(xml_path) returns
\*   size         NoSize, BadSize or <<width, height>>
\*   filename     NoElement, NoText or the image file name
\*   objects      the <object> elements in document order
XmlFile(exists, parses, size, filename, objects) ==
    [exists |-> exists, parses |-> parses, size |-> size,
     filename |-> filename, objects |-> objects]

\* ObjLoop where an object of unknown class ends the file like an error
RECURSIVE ObjLoop_UnknownAborts(_, _, _)
ObjLoop_UnknownAborts(objects, w, h) ==
    IF objects = <<>> THEN [lines |-> <<>>, raised |-> FALSE]
    ELSE LET r == ConvertObject(Head(objects), w, h)
         IN  IF r.kind = "raise" \/ LookupClass(Head(objects).name) = NoClass
             THEN [lines |-> <<>>, raised |-> TRUE]
             ELSE LET rest == ObjLoop_UnknownAborts(Tail(objects), w, h)
                  IN  [lines |-> (IF r.kind = "line" THEN <<r.line>> ELSE <<>>)
                                     \o rest.lines,
                       raised |-> rest.raised]

\* the object loop, lines 110-147: the lines written to the label file
\* before the loop ends or an exception leaves it
RECURSIVE ObjLoop(_, _, _)
ObjLoop(objects, w, h) ==
    IF objects = <<>> THEN [lines |-> <<>>, raised |-> FALSE]
    ELSE LET r == ConvertObject(Head(objects), w, h)
         IN  IF r.kind = "raise" THEN [lines |-> <<>>, raised |-> TRUE]
             ELSE LET rest == ObjLoop(Tail(objects), w, h)
                  IN  [lines |-> (IF r.kind = "line" THEN <<r.line>> ELSE <<>>)
                                     \o rest.lines,
                       raised |-> rest.raised]

\* What one iteration leaves behind:
\*   opened   the label file was opened for writing (created or truncated)
\*   lines    the lines it holds afterwards
\*   copied   the image was copied and processed_count incremented
\*   caught   an exception was caught and printed at lines 156-157
\*   step     where the iteration ended
FileResult(step, opened, lines, copied, caught) ==
    [step |-> step, opened |-> opened, lines |-> lines,
     copied |-> copied, caught |-> caught]

\* FileIteration that opens the label file before it looks at the size
FileIteration_OpenFirst(x, image_exists) ==
    IF ~x.exists THEN FileResult("no xml", FALSE, <<>>, FALSE, FALSE)
    ELSE IF ~x.parses THEN FileResult("error", FALSE, <<>>, FALSE, TRUE)
    ELSE IF x.size = NoSize THEN FileResult("no size", TRUE, <<>>, FALSE, FALSE)
    ELSE IF x.size = BadSize THEN FileResult("error", TRUE, <<>>, FALSE, TRUE)
    ELSE IF x.filename = NoElement THEN FileResult("error", TRUE, <<>>, FALSE, TRUE)
    ELSE IF x.filename = NoText THEN FileResult("no filename", TRUE, <<>>, FALSE, FALSE)
    ELSE LET loop == ObjLoop(x.objects, x.size[1], x.size[2])
         IN  IF loop.raised
             THEN FileResult("error", TRUE, loop.lines, FALSE, TRUE)
             ELSE FileResult("done", TRUE, loop.lines, image_exists, FALSE)

\* FileIteration that looks for the image before it opens the label file
\* and passes the file over when the image is missing
FileIteration_NeedsImage(x, image_exists) ==
    IF ~x.exists THEN FileResult("no xml", FALSE, <<>>, FALSE, FALSE)
    ELSE IF ~x.parses THEN FileResult("error", FALSE, <<>>, FALSE, TRUE)
    ELSE IF x.size = NoSize THEN FileResult("no size", FALSE, <<>>, FALSE, FALSE)
    ELSE IF x.size = BadSize THEN FileResult("error", FALSE, <<>>, FALSE, TRUE)
    ELSE IF x.filename = NoElement THEN FileResult("error", FALSE, <<>>, FALSE, TRUE)
    ELSE IF x.filename = NoText THEN FileResult("no filename", FALSE, <<>>, FALSE, FALSE)
    ELSE IF ~image_exists THEN FileResult("no image", FALSE, <<>>, FALSE, FALSE)
    ELSE LET loop == ObjLoop(x.objects, x.size[1], x.size[2])
         IN  IF loop.raised
             THEN FileResult("error", TRUE, loop.lines, FALSE, TRUE)
             ELSE FileResult("done", TRUE, loop.lines, TRUE, FALSE)

\* lines 78-157 for one file_base; image_exists is os.path.exists(image_path)
FileIteration(x, image_exists) ==
    IF ~x.exists THEN FileResult("no xml", FALSE, <<>>, FALSE, FALSE)
    ELSE IF ~x.parses THEN FileResult("error", FALSE, <<>>, FALSE, TRUE)
    ELSE IF x.size = NoSize THEN FileResult("no size", FALSE, <<>>, FALSE, FALSE)
    ELSE IF x.size = BadSize THEN FileResult("error", FALSE, <<>>, FALSE, TRUE)
    ELSE IF x.filename = NoElement THEN FileResult("error", FALSE, <<>>, FALSE, TRUE)
    ELSE IF x.filename = NoText THEN FileResult("no filename", FALSE, <<>>, FALSE, FALSE)
    ELSE LET loop == ObjLoop(x.objects, x.size[1], x.size[2])
         IN  IF loop.raised
             THEN FileResult("error", TRUE, loop.lines, FALSE, TRUE)
             ELSE FileResult("done", TRUE, loop.lines, image_exists, FALSE)

-----------------------------------------------------------------------------
(* SpecObject: the loop body applied to one object *)

Coords == (0 - 1)..(MaxDim + 1)
Dims == (0 - 1)..MaxDim
Boxes == Coords \X Coords \X Coords \X Coords
ClassNames == {CLASS_MAPPING[id] : id \in DOMAIN CLASS_MAPPING}
\* "scratch" stands for any name outside the table
ObjectNames == {"missing fastener", "board body", "scratch", NoElement}

\* what check_voc_dataset did with one object: error (its file was appended
\* to error_files), class_counted (class_distribution), box_counted
\* (bbox_stats), warned (the out-of-frame warning was printed)
VocChecked(error, class_counted, box_counted, warned) ==
    [kind |-> "checked", error |-> error, class_counted |-> class_counted,
     box_counted |-> box_counted, warned |-> warned]

\* the scenario of the specification: 100x100 image, box (10,10,50,50)
ScenarioSize == <<100, 100>>
ScenarioBox == <<10, 10, 50, 50>>

\* VocCheckObject that puts the file of an out-of-frame box among the errors
VocCheckObject_RejectsOutOfFrame(o, w, h) ==
    IF o.name = NoElement THEN VocChecked(TRUE, FALSE, FALSE, FALSE)
    ELSE IF o.bndbox = NoBox THEN VocChecked(FALSE, TRUE, FALSE, FALSE)
    ELSE IF o.bndbox = BadBox THEN VocChecked(TRUE, TRUE, FALSE, FALSE)
    ELSE LET b == o.bndbox
         IN  IF b[1] >= b[3] \/ b[2] >= b[4]
             THEN VocChecked(TRUE, TRUE, FALSE, FALSE)
             ELSE IF b[1] < 0 \/ b[2] < 0 \/ b[3] > w \/ b[4] > h
             THEN VocChecked(TRUE, TRUE, FALSE, TRUE)
             ELSE VocChecked(FALSE, TRUE, TRUE, FALSE)

\* check_voc_dataset.py lines 97-134, one object of a file of size w x h:
\* the name is counted whatever it is (line 103); a missing box is passed
\* over; a box field that is not a number (lines 132-134) and a box with
\* xmin >= xmax or ymin >= ymax (lines 118-121) put the file among the
\* error files; a box outside the frame is printed as a warning (lines
\* 123-124) and goes on to the box statistics (line 130)
VocCheckObject(o, w, h) ==
    IF o.name = NoElement THEN VocChecked(TRUE, FALSE, FALSE, FALSE)
    ELSE IF o.bndbox = NoBox THEN VocChecked(FALSE, TRUE, FALSE, FALSE)
    ELSE IF o.bndbox = BadBox THEN VocChecked(TRUE, TRUE, FALSE, FALSE)
    ELSE LET b == o.bndbox
         IN  IF b[1] >= b[3] \/ b[2] >= b[4]
             THEN VocChecked(TRUE, TRUE, FALSE, FALSE)
             ELSE VocChecked(FALSE, TRUE, TRUE,
                             b[1] < 0 \/ b[2] < 0 \/ b[3] > w \/ b[4] > h)

ObjInit ==
    /\ obj_result = [kind |-> "pending"]
    /\ voc_check = [kind |-> "pending"]
    /\ \/ /\ img_size \in Dims \X Dims
          /\ obj \in [name : {"missing fastener"},
                      bndbox : Boxes \cup {NoBox, BadBox}]
       \/ /\ img_size \in {<<MaxDim, MaxDim>>, <<0, MaxDim>>}
          /\ obj \in [name : ObjectNames,
                      bndbox : {<<0, 0, 2, 2>>, <<2, 0, 0, 2>>, NoBox, BadBox}]
       \/ /\ img_size = ScenarioSize
          /\ obj \in [name : ClassNames \cup {"scratch"}, bndbox : {ScenarioBox}]

ObjIdle ==
    /\ img_size = <<0, 0>>
    /\ obj = [name |-> NoElement, bndbox |-> NoBox]
    /\ obj_result = [kind |-> "idle"]
    /\ voc_check = [kind |-> "idle"]

\* one pass of the loop body, lines 111-147
ConvertOne ==
    /\ obj_result.kind = "pending"
    /\ obj_result' = ConvertObject(obj, img_size[1], img_size[2])
    /\ UNCHANGED <<img_size, obj, voc_check>>

\* check_voc_dataset.py, one pass of the loop over the objects, lines 97-134
CheckVocObject ==
    /\ voc_check.kind = "pending"
    /\ voc_check' = VocCheckObject(obj, img_size[1], img_size[2])
    /\ UNCHANGED <<img_size, obj, obj_result>>

-----------------------------------------------------------------------------
(* SpecFile: one iteration applied to one annotation file *)

\* all sequences over S of length at most n
SeqsUpTo(S, n) == UNION {[1..k -> S] : k \in 0..n}

FileObjects ==
    [name : ObjectNames, bndbox : {<<0, 0, 2, 2>>, <<1, 1, 4, 3>>, NoBox, BadBox}]

\* files that end before the object loop
HeaderFailures ==
    { XmlFile(FALSE, FALSE, NoSize, NoElement, <<>>),
      XmlFile(TRUE, FALSE, NoSize, NoElement, <<>>),
      XmlFile(TRUE, TRUE, NoSize, "img.jpg", <<>>),
      XmlFile(TRUE, TRUE, BadSize, "img.jpg", <<>>),
      XmlFile(TRUE, TRUE, <<4, 4>>, NoElement, <<>>),
      XmlFile(TRUE, TRUE, <<4, 4>>, NoText, <<>>) }

XmlFiles ==
    HeaderFailures \cup
    { XmlFile(TRUE, TRUE, sz, "img.jpg", objects) :
        sz \in {<<4, 4>>, <<0, 4>>}, objects \in SeqsUpTo(FileObjects, MaxObjs) }

FileInit ==
    /\ xml_file \in [xml : XmlFiles, image_exists : BOOLEAN]
    /\ file_result = [step |-> "pending"]

FileIdle ==
    /\ xml_file = [xml |-> XmlFile(FALSE, FALSE, NoSize, NoElement, <<>>),
                   image_exists |-> FALSE]
    /\ file_result = [step |-> "idle"]

\* one iteration of the loop at line 78
ProcessOne ==
    /\ file_result.step = "pending"
    /\ file_result' = FileIteration(xml_file.xml, xml_file.image_exists)
    /\ UNCHANGED xml_file

-----------------------------------------------------------------------------
(* SpecConvert: convert_voc_to_yolo_final over two split lists *)

Keys == {"a", "b"}
Splits == {"train", "val"}
JpgOf(k) == IF k = "a" THEN "a.jpg" ELSE "b.jpg"
ImageNames == {JpgOf(k) : k \in Keys}

OneBox == <<[name |-> "missing fastener", bndbox |-> <<0, 0, 2, 2>>]>>
WithUnknown ==
    <<[name |-> "scratch", bndbox |-> <<0, 0, 2, 2>>],
      [name |-> "board body", bndbox |-> <<1, 1, 4, 3>>]>>
WithBadBox ==
    <<[name |-> "missing fastener", bndbox |-> <<0, 0, 2, 2>>],
      [name |-> "missing fastener", bndbox |-> BadBox]>>

\* the annotation files a key may have
\* an image whose base name is not the base name of its annotation file
\* (a.xml with <filename>frame_a.jpg</filename>)
OtherImage == "frame_a.jpg"

\* the annotation files that key k can name
XmlPool(k) ==
    { XmlFile(FALSE, FALSE, NoSize, NoElement, <<>>),
      XmlFile(TRUE, TRUE, NoSize, JpgOf(k), OneBox),
      XmlFile(TRUE, TRUE, <<4, 4>>, NoElement, OneBox),
      XmlFile(TRUE, TRUE, <<4, 4>>, NoText, OneBox),
      XmlFile(TRUE, TRUE, <<4, 4>>, JpgOf(k), OneBox),
      XmlFile(TRUE, TRUE, <<4, 4>>, JpgOf(k), WithUnknown),
      XmlFile(TRUE, TRUE, <<4, 4>>, JpgOf(k), WithBadBox),
      XmlFile(TRUE, TRUE, <<0, 4>>, JpgOf(k), OneBox) }
    \cup (IF k = "a"
          THEN {XmlFile(TRUE, TRUE, <<4, 4>>, OtherImage, OneBox)}
          ELSE {})

NoLabel == [present |-> FALSE, lines |-> <<>>]
EmptyOutput ==
    [labels |-> [k \in Keys |-> NoLabel], images |-> {}, count |-> 0]

\* the effect of one iteration (lines 78-157) for file_base on the output
\* of its split
ApplyFile(out, file_base) ==
    LET x == voc_annotations[file_base]
        r == FileIteration(x, x.filename \in voc_images)
    IN  [labels |-> IF r.opened
                    THEN [out.labels EXCEPT
                            ![file_base] = [present |-> TRUE, lines |-> r.lines]]
                    ELSE out.labels,
         images |-> IF r.copied THEN out.images \cup {x.filename} ELSE out.images,
         count |-> IF r.copied THEN out.count + 1 ELSE out.count]

ConvInit ==
    /\ voc_annotations \in [Keys -> UNION {XmlPool(k) : k \in Keys}]
    /\ \A k \in Keys : voc_annotations[k] \in XmlPool(k)
    /\ \E present \in SUBSET ImageNames :
          voc_images = present \cup (IF voc_annotations["a"].filename = OtherImage
                                     THEN {OtherImage} ELSE {})
    /\ imagesets \in [Splits -> [exists : BOOLEAN, lines : SeqsUpTo(Keys, MaxList)]]
    /\ \A s \in Splits : ~imagesets[s].exists => imagesets[s].lines = <<>>
    /\ file_list = [s \in Splits |-> <<>>]
    /\ out_dirs = FALSE
    /\ out_labels = [s \in Splits |-> [k \in Keys |-> NoLabel]]
    /\ out_images = [s \in Splits |-> {}]
    /\ processed_count = [s \in Splits |-> 0]
    /\ conv_pc = "start"
    /\ file_idx = 1

ConvIdle ==
    /\ voc_annotations = <<>>
    /\ voc_images = {}
    /\ imagesets = <<>>
    /\ file_list = <<>>
    /\ out_dirs = FALSE
    /\ out_labels = <<>>
    /\ out_images = <<>>
    /\ processed_count = <<>>
    /\ conv_pc = "idle"
    /\ file_idx = 0

\* ConvertStart that takes every key of the annotation directory into the
\* train list
ConvertStart_AllAnnotations ==
    /\ conv_pc = "start"
    /\ out_dirs' = TRUE
    /\ IF imagesets["train"].exists /\ imagesets["val"].exists
       THEN /\ file_list' = [s \in Splits |->
                                IF s = "train" THEN <<"a", "b">>
                                ELSE imagesets[s].lines]
            /\ conv_pc' = "train"
       ELSE /\ conv_pc' = "failed"
            /\ UNCHANGED file_list
    /\ UNCHANGED <<convInputs, out_labels, out_images, processed_count, file_idx>>

\* lines 23-56: create the output directories, then read the two lists
ConvertStart ==
    /\ conv_pc = "start"
    /\ out_dirs' = TRUE
    /\ IF imagesets["train"].exists /\ imagesets["val"].exists
       THEN /\ file_list' = [s \in Splits |-> imagesets[s].lines]
            /\ conv_pc' = "train"
       ELSE /\ conv_pc' = "failed"                 \* FileNotFoundError
            /\ UNCHANGED file_list
    /\ UNCHANGED <<convInputs, out_labels, out_images, processed_count, file_idx>>

\* one iteration of the loop of process_split for the current split
ProcessNext ==
    /\ conv_pc \in Splits
    /\ file_idx <= Len(file_list[conv_pc])
    /\ LET out == ApplyFile([labels |-> out_labels[conv_pc],
                              images |-> out_images[conv_pc],
                              count |-> processed_count[conv_pc]],
                             file_list[conv_pc][file_idx])
       IN  /\ out_labels' = [out_labels EXCEPT ![conv_pc] = out.labels]
           /\ out_images' = [out_images EXCEPT ![conv_pc] = out.images]
           /\ processed_count' = [processed_count EXCEPT ![conv_pc] = out.count]
    /\ file_idx' = file_idx + 1
    /\ UNCHANGED <<convInputs, file_list, out_dirs, conv_pc>>

\* process_split returns processed_count (line 159); the caller goes on with
\* the validation list, then prints the totals (lines 63-72)
SplitReturn ==
    /\ conv_pc \in Splits
    /\ file_idx > Len(file_list[conv_pc])
    /\ conv_pc' = IF conv_pc = "train" THEN "val" ELSE "done"
    /\ file_idx' = 1
    /\ UNCHANGED <<convInputs, file_list, out_dirs, out_labels, out_images,
                   processed_count>>

-----------------------------------------------------------------------------
(* SpecSplit: split_yolo_dataset *)

\* str.lower() on the extensions that occur
Lower(ext) ==
    CASE ext = "Jpg" -> "jpg"
      [] ext = "JPG" -> "jpg"
      [] ext = "PNG" -> "png"
      [] ext = "JPEG" -> "jpeg"
      [] OTHER -> ext

\* line 34: f.lower().endswith(('.jpg', '.jpeg', '.png'))
IsImageFile(f) == Lower(f[2]) \in {"jpg", "jpeg", "png"}

\* line 74: the extensions tried when an image is copied
CopyExts == {"jpg", "jpeg", "png", "JPG", "JPEG", "PNG"}

\* all orders of the members of the finite set S
RECURSIVE Orders(_)
Orders(S) ==
    IF S = {} THEN {<<>>}
    ELSE UNION {{<<x>> \o r : r \in Orders(S \ {x})} : x \in S}

\* the smallest integer >= a / b, for b > 0
Ceil(a, b) == 0 - ((0 - a) \div b)

\* numpy.random.RandomState(42).permutation(n), counted from 1: the order in
\* which ShuffleSplit(random_state=42) deals out n samples
SeededPermutation(n) ==
    CASE n = 0 -> <<>>
      [] n = 1 -> <<1>>
      [] n = 2 -> <<2, 1>>
      [] n = 3 -> <<1, 2, 3>>
      [] n = 4 -> <<2, 4, 1, 3>>
      [] n = 5 -> <<2, 5, 3, 1, 4>>
      [] n = 6 -> <<1, 2, 6, 3, 5, 4>>
      [] n = 7 -> <<1, 2, 6, 3, 5, 4, 7>>
      [] n = 8 -> <<2, 6, 1, 8, 3, 5, 4, 7>>

\* NTest that rounds down
NTest_Floor(n, num, den) == (num * n) \div den

\* sklearn's n_test for a float test_size = num/den: ceil(test_size * n)
NTest(n, num, den) == Ceil(num * n, den)

\* TrainTestSplit whose train part starts one place early
TrainTestSplit_Overlap(a, num, den) ==
    LET n == Len(a)
        n_test == NTest(n, num, den)
        n_train == n - n_test
        perm == SeededPermutation(n)
    IN  IF ~(0 < num /\ num < den) \/ n_train <= 0
        THEN [ok |-> FALSE, train |-> <<>>, test |-> <<>>]
        ELSE [ok |-> TRUE,
              train |-> [i \in 1..n_train |-> a[perm[n_test + i - 1]]],
              test |-> [i \in 1..n_test |-> a[perm[i]]]]

\* train_test_split(a, test_size=num/den, random_state=42): ok is FALSE when
\* it raises ValueError (test_size outside (0,1), or an empty train part)
TrainTestSplit(a, num, den) ==
    LET n == Len(a)
        n_test == NTest(n, num, den)
        n_train == n - n_test
        perm == SeededPermutation(n)
    IN  IF ~(0 < num /\ num < den) \/ n_train <= 0
        THEN [ok |-> FALSE, train |-> <<>>, test |-> <<>>]
        ELSE [ok |-> TRUE,
              train |-> [i \in 1..n_train |-> a[perm[n_test + i]]],
              test |-> [i \in 1..n_test |-> a[perm[i]]]]

\* lines 42-54: the two-stage split of the shuffled list
TwoStageSplit(shuffled, r) ==
    LET val_test_ratio == r[2] + r[3]
        first == TrainTestSplit(shuffled, val_test_ratio, Million)
        second == TrainTestSplit(first.test, r[3], val_test_ratio)
    IN  IF first.ok /\ second.ok
        THEN [ok |-> TRUE, train |-> first.train,
              val |-> second.train, test |-> second.test]
        ELSE [ok |-> FALSE, train |-> <<>>, val |-> <<>>, test |-> <<>>]

\* line 26: abs(total_ratio - 1.0) > 1e-5
Tolerance == 10

\* RatiosRejected that only looks for a sum below 1.0
RatiosRejected_OnlyBelow(r) ==
    LET total_ratio == r[1] + r[2] + r[3]
    IN  Million - total_ratio > Tolerance

RatiosRejected(r) ==
    LET total_ratio == r[1] + r[2] + r[3]
    IN  total_ratio - Million > Tolerance \/ Million - total_ratio > Tolerance

SplitNames == <<"train", "val", "test">>
NoSplitFiles == [train |-> <<>>, val |-> <<>>, test |-> <<>>]
NoSplitOut ==
    [sp \in {"train", "val", "test"} |-> [dirs |-> FALSE, images |-> {}, labels |-> {}]]

\* the extension of the image of sample key k
ExtOf(k) ==
    CASE k = 1 -> "jpg"
      [] k = 2 -> "PNG"
      [] k = 3 -> "Jpg"
      [] k = 4 -> "jpeg"
      [] OTHER -> "jpg"

\* a second image of sample key 1, and a file that is no image
Duplicate == <<1, "png">>
NotAnImage == <<0, "bmp">>

RatioChoices ==
    { <<700000, 150000, 150000>>, <<400000, 300000, 300000>>,
      <<700004, 150000, 150000>>, <<600000, 200000, 100000>>,
      <<1000000, 0, 0>>, <<500000, 500000, 0>>,
      <<700000, 200000, 150000>> }

SplitInit ==
    /\ \E n \in 0..MaxSamples : \E extra \in SUBSET {Duplicate} :
          input_images = {<<k, ExtOf(k)>> : k \in 1..n} \cup extra \cup {NotAnImage}
    /\ input_labels \in {1..MaxSamples, 2..MaxSamples, {}}
    /\ ratios \in RatioChoices
    /\ split_files = NoSplitFiles
    /\ split_out = NoSplitOut
    /\ split_pc = "start"
    /\ copy_pos = <<0, 1>>
    /\ input_read = FALSE
    /\ invocation = 1
    /\ first_files = NoSplitFiles

SplitIdle ==
    /\ input_images = {}
    /\ input_labels = {}
    /\ ratios = <<0, 0, 0>>
    /\ split_files = NoSplitFiles
    /\ split_out = <<>>
    /\ split_pc = "idle"
    /\ copy_pos = <<0, 1>>
    /\ input_read = FALSE
    /\ invocation = 0
    /\ first_files = NoSplitFiles

\* lines 24-27: the ratios do not sum to 1.0
RejectRatios ==
    /\ split_pc = "start"
    /\ RatiosRejected(ratios)
    /\ split_pc' = "failed"                            \* ValueError
    /\ UNCHANGED <<splitInputs, split_files, split_out, copy_pos, input_read,
                   invocation, first_files>>

\* lines 29-58: list the images, shuffle them, split twice
ListAndSplit ==
    /\ split_pc = "start"
    /\ ~RatiosRejected(ratios)
    /\ input_read' = TRUE
    /\ \E listing \in Orders({f \in input_images : IsImageFile(f)}) :
          \* random.shuffle leaves the list in any order
          LET shuffled == [i \in 1..Len(listing) |-> listing[i][1]]
              parts == TwoStageSplit(shuffled, ratios)
          IN  IF parts.ok
              THEN /\ split_files' = [train |-> parts.train, val |-> parts.val,
                                      test |-> parts.test]
                   /\ split_pc' = "copy"
                   /\ copy_pos' = <<0, 1>>
              ELSE /\ split_pc' = "failed"              \* ValueError of sklearn
                   /\ UNCHANGED <<split_files, copy_pos>>
    /\ UNCHANGED <<splitInputs, split_out, invocation, first_files>>

\* the list the copy loop is in (none before the first pair)
CurrentFiles ==
    IF copy_pos[1] = 0 THEN <<>> ELSE split_files[SplitNames[copy_pos[1]]]

\* lines 64-69: the next (split, files) pair: its directories are created;
\* after the last pair the function returns
EnterSplit ==
    /\ split_pc = "copy"
    /\ copy_pos[2] > Len(CurrentFiles)
    /\ IF copy_pos[1] = 3
       THEN /\ split_pc' = "done"
            /\ UNCHANGED <<split_out, copy_pos>>
       ELSE /\ copy_pos' = <<copy_pos[1] + 1, 1>>
            /\ split_out' = [split_out EXCEPT
                                ![SplitNames[copy_pos[1] + 1]].dirs = TRUE]
            /\ UNCHANGED split_pc
    /\ UNCHANGED <<splitInputs, split_files, input_read, invocation, first_files>>

\* lines 72-87: copy the image (stored as <file_base>.jpg) and the label of
\* one file_base
CopyFile ==
    /\ split_pc = "copy"
    /\ copy_pos[2] <= Len(CurrentFiles)
    /\ LET sp == SplitNames[copy_pos[1]]
           file_base == split_files[sp][copy_pos[2]]
           found == \E e \in CopyExts : <<file_base, e>> \in input_images
           has_label == file_base \in input_labels
       IN  split_out' = [split_out EXCEPT
              ![sp].images = IF found THEN @ \cup {file_base} ELSE @,
              ![sp].labels = IF has_label THEN @ \cup {file_base} ELSE @]
    /\ copy_pos' = <<copy_pos[1], copy_pos[2] + 1>>
    /\ UNCHANGED <<splitInputs, split_files, split_pc, input_read, invocation,
                   first_files>>

\* the set of members of a sequence
Range(q) == {q[i] : i \in 1..Len(q)}

\* the same command is run once more on the same input and output
Reinvoke ==
    /\ split_pc \in {"done", "failed"}
    /\ invocation = 1
    /\ invocation' = 2
    /\ first_files' = split_files
    /\ split_files' = NoSplitFiles
    /\ split_pc' = "start"
    /\ copy_pos' = <<0, 1>>
    /\ input_read' = FALSE
    /\ UNCHANGED <<splitInputs, split_out>>

-----------------------------------------------------------------------------
(* SpecCheck: check_yolo_dataset and main of check_dataset.py.             *)
(* check_dataset.py, lines 13-18, holds the same table as CLASS_MAPPING.   *)
(* A line of a label file is the list of its tokens, line.strip().split(). *)

\* int(tok), line 93, on the tokens that occur: ok is FALSE for ValueError
IntParse(tok) ==
    CASE tok = "0" -> [ok |-> TRUE, val |-> 0]
      [] tok = "1" -> [ok |-> TRUE, val |-> 1]
      [] tok = "2" -> [ok |-> TRUE, val |-> 2]
      [] tok = "3" -> [ok |-> TRUE, val |-> 3]
      [] tok = "7" -> [ok |-> TRUE, val |-> 7]
      [] OTHER -> [ok |-> FALSE, val |-> 0]

\* float(tok), lines 94-97, on the tokens that occur, in millionths: ok is
\* FALSE for ValueError, nan is TRUE for the float nan
FloatParse(tok) ==
    CASE tok = "0" -> [ok |-> TRUE, nan |-> FALSE, val |-> 0]
      [] tok = "1" -> [ok |-> TRUE, nan |-> FALSE, val |-> Million]
      [] tok = "2" -> [ok |-> TRUE, nan |-> FALSE, val |-> 2 * Million]
      [] tok = "3" -> [ok |-> TRUE, nan |-> FALSE, val |-> 3 * Million]
      [] tok = "7" -> [ok |-> TRUE, nan |-> FALSE, val |-> 7 * Million]
      [] tok = "1.0" -> [ok |-> TRUE, nan |-> FALSE, val |-> Million]
      [] tok = "0.5" -> [ok |-> TRUE, nan |-> FALSE, val |-> Million \div 2]
      [] tok = "1.5" -> [ok |-> TRUE, nan |-> FALSE, val |-> 3 * (Million \div 2)]
      [] tok = "-0.1" -> [ok |-> TRUE, nan |-> FALSE, val |-> 0 - (Million \div 10)]
      [] tok = "nan" -> [ok |-> TRUE, nan |-> TRUE, val |-> 0]
      [] OTHER -> [ok |-> FALSE, nan |-> FALSE, val |-> 0]

\* 0 <= v <= 1 on a parsed float: every comparison with nan is False
InUnitRange(v) == ~v.nan /\ 0 <= v.val /\ v.val <= Million

\* what the body of the line loop does with one line
Counted(cls_id) == [flagged |-> FALSE, counted |-> TRUE, cls_id |-> cls_id]
Flagged == [flagged |-> TRUE, counted |-> FALSE, cls_id |-> NoClass]

\* CheckLine without the test of the class id
CheckLine_AnyClass(parts) ==
    IF Len(parts) # 5 THEN Flagged
    ELSE LET cls == IntParse(parts[1])
             num == [i \in 2..5 |-> FloatParse(parts[i])]
         IN  IF ~cls.ok \/ \E i \in 2..5 : ~num[i].ok THEN Flagged
             ELSE IF \E i \in 2..5 : ~InUnitRange(num[i]) THEN Flagged
             ELSE Counted(cls.val)

\* lines 86-120, one line: the token count, the five conversions (a
\* ValueError is caught at line 118), the class id, the range
CheckLine(parts) ==
    IF Len(parts) # 5 THEN Flagged
    ELSE LET cls == IntParse(parts[1])
             num == [i \in 2..5 |-> FloatParse(parts[i])]
         IN  IF ~cls.ok \/ \E i \in 2..5 : ~num[i].ok THEN Flagged
             ELSE IF cls.val \notin DOMAIN CLASS_MAPPING THEN Flagged
             ELSE IF \E i \in 2..5 : ~InUnitRange(num[i]) THEN Flagged
             ELSE Counted(cls.val)

\* CheckLines that leaves the file at its first rejected line
RECURSIVE CheckLines_StopAtError(_, _, _, _)
CheckLines_StopAtError(lines, label_file, dist, errs) ==
    IF lines = <<>> THEN [dist |-> dist, errs |-> errs]
    ELSE LET r == CheckLine(Head(lines))
         IN  IF r.flagged
             THEN [dist |-> dist, errs |-> Append(errs, label_file)]
             ELSE CheckLines_StopAtError(Tail(lines), label_file,
                      [dist EXCEPT ![r.cls_id] = @ + 1], errs)

\* lines 85-120: the loop over the lines of one file; a rejected line
\* appends the file to error_files and the loop goes on
RECURSIVE CheckLines(_, _, _, _)
CheckLines(lines, label_file, dist, errs) ==
    IF lines = <<>> THEN [dist |-> dist, errs |-> errs]
    ELSE LET r == CheckLine(Head(lines))
         IN  CheckLines(Tail(lines), label_file,
                 IF r.counted THEN [dist EXCEPT ![r.cls_id] = @ + 1] ELSE dist,
                 IF r.flagged THEN Append(errs, label_file) ELSE errs)

\* Verdict without error_files
Verdict_PairsOnly(mi, ml, ef) == mi = {} /\ ml = {}

\* the verdict of line 155
Verdict(mi, ml, ef) == mi = {} /\ ml = {} /\ ef = <<>>

\* a label file: readable is FALSE when open or readlines raises (no
\* permission, not UTF-8 text)
LabelFile(readable, lines) == [readable |-> readable, lines |-> lines]
Unreadable == LabelFile(FALSE, <<>>)
NoFile == LabelFile(TRUE, <<>>)

\* the lines a label file is made of
GoodLine1 == <<"1", "0.5", "0.5", "0.5", "0.5">>
GoodLine3 == <<"3", "0", "1", "0.5", "1.0">>
FourTokens == <<"1", "0.5", "0.5", "0.5">>
BlankLine == <<>>
ClassSeven == <<"7", "0.5", "0.5", "0.5", "0.5">>
AboveOne == <<"0", "0.5", "1.5", "0.5", "0.5">>
BelowZero == <<"2", "0.5", "0.5", "-0.1", "0.5">>
NotANumber == <<"2", "0.5", "abc", "0.5", "0.5">>
FloatClassId == <<"1.0", "0.5", "0.5", "0.5", "0.5">>
NanCoordinate == <<"0", "nan", "0.5", "0.5", "0.5">>
LinePool ==
    {GoodLine1, GoodLine3, FourTokens, BlankLine, ClassSeven, AboveOne,
     BelowZero, NotANumber, FloatClassId, NanCoordinate}

\* the files that can stand in data_dir/images and data_dir/labels
CheckImagePool == {<<"a", "jpg">>, <<"b", "PNG">>, <<"b", "bmp">>}
CheckLabelPool == {<<"a", "txt">>, <<"b", "txt">>, <<"b", "TXT">>}
ContentsA == {LabelFile(TRUE, l) : l \in SeqsUpTo(LinePool, MaxLines)} \cup {Unreadable}
ContentsB ==
    {LabelFile(TRUE, <<>>), LabelFile(TRUE, <<GoodLine3>>),
     LabelFile(TRUE, <<FourTokens, GoodLine1>>), Unreadable}

NoDistribution == [id \in DOMAIN CLASS_MAPPING |-> 0]

CheckInit ==
    /\ \E exists \in BOOLEAN, files \in SUBSET CheckImagePool :
        /\ ~exists => files = {}
        /\ images_dir = [exists |-> exists, files |-> files]
    /\ \E exists \in BOOLEAN, files \in SUBSET CheckLabelPool,
          ca \in ContentsA, cb \in ContentsB :
        /\ ~exists => files = {}
        /\ <<"a", "txt">> \notin files => ca = NoFile
        /\ <<"b", "txt">> \notin files => cb = NoFile
        /\ labels_dir = [exists |-> exists, files |-> files,
                         content |-> [k \in Keys |-> IF k = "a" THEN ca ELSE cb]]
    /\ image_files = {} /\ label_files = {}
    /\ missing_images = {} /\ missing_labels = {} /\ common_files = {}
    /\ unchecked = {}
    /\ class_distribution = NoDistribution
    /\ error_files = <<>>
    /\ success = "unset"
    /\ exit_code = -1
    /\ check_pc = "start"

CheckIdle ==
    /\ images_dir = [exists |-> FALSE, files |-> {}]
    /\ labels_dir = [exists |-> FALSE, files |-> {},
                     content |-> [k \in Keys |-> NoFile]]
    /\ image_files = {} /\ label_files = {}
    /\ missing_images = {} /\ missing_labels = {} /\ common_files = {}
    /\ unchecked = {}
    /\ class_distribution = NoDistribution
    /\ error_files = <<>>
    /\ success = "unset"
    /\ exit_code = -1
    /\ check_pc = "idle"

\* CheckStart whose loop visits every label file, paired or not
CheckStart_AllLabels ==
    /\ check_pc = "start"
    /\ IF ~images_dir.exists \/ ~labels_dir.exists
       THEN /\ success' = "False"
            /\ check_pc' = "returned"
            /\ UNCHANGED <<image_files, label_files, missing_images,
                           missing_labels, common_files, unchecked>>
       ELSE LET imgs == {f[1] : f \in {g \in images_dir.files : IsImageFile(g)}}
                lbls == {f[1] : f \in {g \in labels_dir.files : g[2] = "txt"}}
            IN  /\ image_files' = imgs
                /\ label_files' = lbls
                /\ missing_images' = lbls \ imgs
                /\ missing_labels' = imgs \ lbls
                /\ common_files' = imgs \cap lbls
                /\ unchecked' = lbls
                /\ check_pc' = "scan"
                /\ UNCHANGED success
    /\ UNCHANGED <<checkInputs, class_distribution, error_files, exit_code>>

\* lines 27-70: a missing directory returns False; otherwise the two key
\* sets (an image by its lower-cased extension, a label by ".txt" as
\* written) and their differences
CheckStart ==
    /\ check_pc = "start"
    /\ IF ~images_dir.exists \/ ~labels_dir.exists
       THEN /\ success' = "False"
            /\ check_pc' = "returned"
            /\ UNCHANGED <<image_files, label_files, missing_images,
                           missing_labels, common_files, unchecked>>
       ELSE LET imgs == {f[1] : f \in {g \in images_dir.files : IsImageFile(g)}}
                lbls == {f[1] : f \in {g \in labels_dir.files : g[2] = "txt"}}
            IN  /\ image_files' = imgs
                /\ label_files' = lbls
                /\ missing_images' = lbls \ imgs
                /\ missing_labels' = imgs \ lbls
                /\ common_files' = imgs \cap lbls
                /\ unchecked' = imgs \cap lbls
                /\ check_pc' = "scan"
                /\ UNCHANGED success
    /\ UNCHANGED <<checkInputs, class_distribution, error_files, exit_code>>

\* CheckLabelFile that writes the file back without its rejected lines
CheckLabelFile_DropsRejected ==
    /\ check_pc = "scan"
    /\ \E label_file \in unchecked :
        LET file == labels_dir.content[label_file]
            r == CheckLines(file.lines, label_file, class_distribution, error_files)
        IN  /\ IF file.readable
               THEN /\ class_distribution' = r.dist
                    /\ error_files' = r.errs
               ELSE /\ error_files' = Append(error_files, label_file)
                    /\ UNCHANGED class_distribution
            /\ labels_dir' = [labels_dir EXCEPT !.content[label_file].lines =
                                 SelectSeq(@, LAMBDA l : CheckLine(l).counted)]
            /\ unchecked' = unchecked \ {label_file}
    /\ UNCHANGED <<images_dir, image_files, label_files, missing_images,
                   missing_labels, common_files, success, exit_code, check_pc>>

\* lines 78-124: one pass of the loop over common_files, in the order the
\* set yields them; a file that cannot be read is appended to error_files
CheckLabelFile ==
    /\ check_pc = "scan"
    /\ \E label_file \in unchecked :
        LET file == labels_dir.content[label_file]
            r == CheckLines(file.lines, label_file, class_distribution, error_files)
        IN  /\ IF file.readable
               THEN /\ class_distribution' = r.dist
                    /\ error_files' = r.errs
               ELSE /\ error_files' = Append(error_files, label_file)
                    /\ UNCHANGED class_distribution
            /\ unchecked' = unchecked \ {label_file}
    /\ UNCHANGED <<checkInputs, image_files, label_files, missing_images,
                   missing_labels, common_files, success, exit_code, check_pc>>

\* lines 152-166: the verdict
CheckSummary ==
    /\ check_pc = "scan"
    /\ unchecked = {}
    /\ success' = IF Verdict(missing_images, missing_labels, error_files)
                  THEN "True" ELSE "False"
    /\ check_pc' = "returned"
    /\ UNCHANGED <<checkInputs, image_files, label_files, missing_images,
                   missing_labels, common_files, unchecked,
                   class_distribution, error_files, exit_code>>

\* lines 174-177: exit(0 if success else 1)
MainExit ==
    /\ check_pc = "returned"
    /\ exit_code' = IF success = "True" THEN 0 ELSE 1
    /\ check_pc' = "exited"
    /\ UNCHANGED <<checkInputs, image_files, label_files, missing_images,
                   missing_labels, common_files, unchecked,
                   class_distribution, error_files, success>>

-----------------------------------------------------------------------------
(* SpecFix: the two box repair functions, applied to one annotation file:  *)
(*   fix_invalid_bbox           of scripts/fix_voc_labels.py               *)
(*   fix_invalid_bbox_advanced  of scripts/fix_invalid_bbox.py             *)
(* A bndbox is NoBox, PartialBox, BadBox or <<xmin, ymin, xmax, ymax>>.    *)

\* a bndbox without its xmin element
PartialBox == <<"partial">>
\* fix_invalid_bbox.py, line 69: the least area of a box that is kept
MinArea == 4

\* an annotation file as the repair functions see it
FixXml(parses, size, boxes) == [parses |-> parses, size |-> size, boxes |-> boxes]

\* IsInvalid without the rule on the area
IsInvalid_NoAreaRule(b, w, h) ==
    \/ b[1] >= b[3]
    \/ b[2] >= b[4]
    \/ b[1] < 0 \/ b[2] < 0 \/ b[3] > w \/ b[4] > h

\* fix_invalid_bbox.py, lines 50-71: is_invalid of a numeric box
IsInvalid(b, w, h) ==
    \/ b[1] >= b[3]
    \/ b[2] >= b[4]
    \/ b[1] < 0 \/ b[2] < 0 \/ b[3] > w \/ b[4] > h
    \/ (b[3] - b[1]) * (b[4] - b[2]) < MinArea

\* lines 32-81: the object goes to objects_to_remove
ToRemove(b, w, h) ==
    IF b = NoBox \/ b = PartialBox THEN FALSE
    ELSE IF b = BadBox THEN TRUE
    ELSE IsInvalid(b, w, h)

\* lines 84-85: q without the objects of objects_to_remove, in order
RECURSIVE KeptBoxes(_, _, _)
KeptBoxes(q, w, h) ==
    IF q = <<>> THEN <<>>
    ELSE IF ToRemove(Head(q), w, h) THEN KeptBoxes(Tail(q), w, h)
    ELSE <<Head(q)>> \o KeptBoxes(Tail(q), w, h)

\* FixInvalidBboxAdvanced that writes the file whatever fixed_count is
FixInvalidBboxAdvanced_AlwaysWrites(x) ==
    IF ~x.parses \/ x.size = NoSize \/ x.size = BadSize
    THEN [xml |-> x, returned |-> "False", written |-> FALSE, fixed_count |-> 0]
    ELSE LET kept == KeptBoxes(x.boxes, x.size[1], x.size[2])
             fixed_count == Len(x.boxes) - Len(kept)
         IN  [xml |-> [x EXCEPT !.boxes = kept],
              returned |-> "True",
              written |-> TRUE,
              fixed_count |-> fixed_count]

\* fix_invalid_bbox_advanced: the file afterwards, the value returned,
\* whether tree.write was called and fixed_count
FixInvalidBboxAdvanced(x) ==
    IF ~x.parses \/ x.size = NoSize \/ x.size = BadSize
    THEN [xml |-> x, returned |-> "False", written |-> FALSE, fixed_count |-> 0]
    ELSE LET kept == KeptBoxes(x.boxes, x.size[1], x.size[2])
             fixed_count == Len(x.boxes) - Len(kept)
         IN  [xml |-> IF fixed_count > 0 THEN [x EXCEPT !.boxes = kept] ELSE x,
              returned |-> "True",
              written |-> fixed_count > 0,
              fixed_count |-> fixed_count]

\* fix_voc_labels.py, lines 220-227: xmin and xmax change places when
\* xmin >= xmax; ymin and ymax are left as they are
SwapX(b) ==
    IF b = NoBox \/ b = PartialBox THEN b
    ELSE IF b[1] >= b[3] THEN <<b[3], b[2], b[1], b[4]>>
    ELSE b

\* fix_invalid_bbox: float() of a text that is no number raises, the except
\* of line 231 catches it and the file is not written
FixInvalidBbox(x) ==
    IF ~x.parses \/ \E i \in 1..Len(x.boxes) : x.boxes[i] = BadBox
    THEN [xml |-> x, returned |-> "None", written |-> FALSE, fixed_count |-> 0]
    ELSE [xml |-> [x EXCEPT !.boxes = [i \in 1..Len(x.boxes) |-> SwapX(x.boxes[i])]],
          returned |-> "None",
          written |-> TRUE,
          fixed_count |-> 0]

\* the boxes of a file of several objects
FixBoxPool ==
    {<<0, 0, 2, 2>>, <<3, 1, 1, 3>>, <<1, 3, 3, 1>>, <<1, 1, 2, 2>>,
     <<2, 2, 5, 4>>, NoBox, PartialBox, BadBox}
FixSizes == {<<MaxDim, MaxDim>>, <<MaxDim, 2>>}

FixInit ==
    /\ \/ \E b \in Boxes, size \in FixSizes :
            fix_xml = FixXml(TRUE, size, <<b>>)
       \/ \E q \in SeqsUpTo(FixBoxPool, MaxObjs) :
            fix_xml = FixXml(TRUE, <<MaxDim, MaxDim>>, q)
       \/ \E parses \in BOOLEAN, size \in {NoSize, BadSize, <<MaxDim, MaxDim>>} :
            /\ ~parses \/ size \in {NoSize, BadSize}
            /\ fix_xml = FixXml(parses, size, <<<<3, 1, 1, 3>>>>)
    /\ fix_source = fix_xml
    /\ fix_returned = "unset"
    /\ fix_written = FALSE
    /\ fix_log = <<>>

FixIdle ==
    /\ fix_xml = FixXml(FALSE, NoSize, <<>>)
    /\ fix_source = fix_xml
    /\ fix_returned = "idle"
    /\ fix_written = FALSE
    /\ fix_log = <<>>

\* fix_invalid_bbox_advanced(xml_path) is called on the file
RunFixAdvanced ==
    /\ fix_returned # "idle"
    /\ Len(fix_log) < MaxRuns
    /\ LET r == FixInvalidBboxAdvanced(fix_xml)
       IN  /\ fix_xml' = r.xml
           /\ fix_returned' = r.returned
           /\ fix_written' = r.written
    /\ fix_log' = Append(fix_log, "advanced")
    /\ UNCHANGED fix_source

\* fix_invalid_bbox(xml_path) is called on the file
RunFixBasic ==
    /\ fix_returned # "idle"
    /\ Len(fix_log) < MaxRuns
    /\ LET r == FixInvalidBbox(fix_xml)
       IN  /\ fix_xml' = r.xml
           /\ fix_returned' = r.returned
           /\ fix_written' = r.written
    /\ fix_log' = Append(fix_log, "basic")
    /\ UNCHANGED fix_source

-----------------------------------------------------------------------------
(* SpecInfer: the PCB status rule, Inference._analyze_pcb_status *)

\* a detection result: has_boxes is FALSE when result has no attribute
\* boxes or result.boxes is None; cls holds int(box.cls[0]) of each box
Result(has_boxes, cls) == [has_boxes |-> has_boxes, cls |-> cls]

\* lines 134-142: the two flags after the loop over the boxes
RECURSIVE ScanBoxes(_, _, _)
ScanBoxes(cls, has_no_screw, has_circuit_board) ==
    IF cls = <<>>
    THEN [has_no_screw |-> has_no_screw, has_circuit_board |-> has_circuit_board]
    ELSE ScanBoxes(Tail(cls),
                   has_no_screw \/ Head(cls) = 1,
                   has_circuit_board \/ (Head(cls) # 1 /\ Head(cls) = 3))

\* AnalyzeStatus for which one of the two flags is enough
AnalyzeStatus_EitherFlag(r) ==
    IF ~r.has_boxes THEN "unknown"
    ELSE LET flags == ScanBoxes(r.cls, FALSE, FALSE)
         IN  IF flags.has_circuit_board \/ flags.has_no_screw
             THEN "abnormal" ELSE "normal"

\* _analyze_pcb_status, lines 130-148
AnalyzeStatus(r) ==
    IF ~r.has_boxes THEN "unknown"
    ELSE LET flags == ScanBoxes(r.cls, FALSE, FALSE)
         IN  IF flags.has_circuit_board /\ flags.has_no_screw
             THEN "abnormal" ELSE "normal"

\* the class ids a box can carry: the four of the table and one beyond it
DetectedIds == 0..4

InferInit ==
    /\ \/ \E cls \in SeqsUpTo(DetectedIds, MaxDet) : result = Result(TRUE, cls)
       \/ result = Result(FALSE, <<>>)
    /\ pcb_status = "pending"

InferIdle ==
    /\ result = Result(FALSE, <<>>)
    /\ pcb_status = "idle"

\* pcb_status = self._analyze_pcb_status(result), line 66
AnalyzePcbStatus ==
    /\ pcb_status = "pending"
    /\ pcb_status' = AnalyzeStatus(result)
    /\ UNCHANGED result

-----------------------------------------------------------------------------
(* SpecBatch: Inference.predict_batch over the images of a directory *)

\* an image of the directory: predicts is FALSE when model.predict or the
\* drawing raises for it (a file that cannot be decoded, a missing font)
BatchImage(predicts, res) == [predicts |-> predicts, result |-> res]

\* predict_single, lines 50-78: raised, or the pcb_status of the triple it
\* returns; the drawing indexes class_names with each class id (line 185)
PredictSingle(img) ==
    IF ~img.predicts THEN [raised |-> TRUE, pcb_status |-> "none"]
    ELSE IF img.result.has_boxes
            /\ \E i \in 1..Len(img.result.cls) :
                  img.result.cls[i] \notin DOMAIN CLASS_MAPPING
    THEN [raised |-> TRUE, pcb_status |-> "none"]          \* IndexError
    ELSE [raised |-> FALSE, pcb_status |-> AnalyzeStatus(img.result)]

\* line 100
NoCount == [normal |-> 0, abnormal |-> 0]

BatchImagePool ==
    { BatchImage(FALSE, Result(TRUE, <<>>)),
      BatchImage(TRUE, Result(TRUE, <<>>)),
      BatchImage(TRUE, Result(TRUE, <<1, 3>>)),
      BatchImage(TRUE, Result(TRUE, <<3, 2>>)),
      BatchImage(TRUE, Result(FALSE, <<>>)),
      BatchImage(TRUE, Result(TRUE, <<4>>)) }

BatchInit ==
    /\ batch_images \in SeqsUpTo(BatchImagePool, MaxBatch)
    /\ batch_idx = 1
    /\ status_count = NoCount
    /\ batch_errors = 0
    /\ batch_pc = "start"

BatchIdle ==
    /\ batch_images = <<>>
    /\ batch_idx = 0
    /\ status_count = NoCount
    /\ batch_errors = 0
    /\ batch_pc = "idle"

\* lines 90-100: no image, return None; else the two counters start at 0
PredictBatchStart ==
    /\ batch_pc = "start"
    /\ batch_pc' = IF batch_images = <<>> THEN "returned None" ELSE "loop"
    /\ status_count' = NoCount
    /\ UNCHANGED <<batch_images, batch_idx, batch_errors>>

\* lines 102-112, one image: the status predict_single returned is the key
\* of the counter that is incremented; an exception of predict_single and
\* the KeyError of a status that is no key of status_count end in the
\* except branch
PredictNextImage ==
    /\ batch_pc = "loop"
    /\ batch_idx <= Len(batch_images)
    /\ LET r == PredictSingle(batch_images[batch_idx])
       IN  IF ~r.raised /\ r.pcb_status \in DOMAIN status_count
           THEN /\ status_count' = [status_count EXCEPT ![r.pcb_status] = @ + 1]
                /\ UNCHANGED batch_errors
           ELSE /\ batch_errors' = batch_errors + 1
                /\ UNCHANGED status_count
    /\ batch_idx' = batch_idx + 1
    /\ UNCHANGED <<batch_images, batch_pc>>

\* lines 114-118: the totals are printed and status_count returned
PredictBatchReturn ==
    /\ batch_pc = "loop"
    /\ batch_idx > Len(batch_images)
    /\ batch_pc' = "returned"
    /\ UNCHANGED <<batch_images, batch_idx, status_count, batch_errors>>

-----------------------------------------------------------------------------
(* SpecTrain: the methods of a Trainer, called in any order *)

\* self.config: train_section is config['train'] (read at line 42),
\* model_section is config['model'] (line 64), train_keys are the keys of
\* config['train'] that lines 65, 91-100 and 178 index (epochs, batch_size,
\* img_size, patience, save_dir)
TrainerConfig(train_section, train_keys, model_section) ==
    [train_section |-> train_section, train_keys |-> train_keys,
     model_section |-> model_section]

\* one call: the method, how it ended ("returned", "ValueError" of the
\* test of self.model, or "raised" for any other exception) and whether a
\* method of the detection library was called on self.model
Call(op, outcome, lib_called) ==
    [op |-> op, outcome |-> outcome, lib_called |-> lib_called]

TrainInit ==
    /\ \E train_section, train_keys, model_section \in BOOLEAN :
          /\ train_keys => train_section
          /\ trainer_config = TrainerConfig(train_section, train_keys, model_section)
    /\ trainer_model = "None"
    /\ setup_completed = FALSE
    /\ trainer_log = <<>>

TrainIdle ==
    /\ trainer_config = TrainerConfig(FALSE, FALSE, FALSE)
    /\ trainer_model = "None"
    /\ setup_completed = FALSE
    /\ trainer_log = <<>>

\* setup_training, lines 31-65: the device is read from config['train'],
\* the weights are loaded into self.model (YOLO(...) may raise), then
\* config['model'] and config['train']['epochs'] are read
SetupTraining ==
    /\ Len(trainer_log) < MaxCalls
    /\ \E loads \in BOOLEAN :
          IF ~trainer_config.train_section \/ ~loads
          THEN /\ trainer_log' = Append(trainer_log, Call("setup_training", "raised", FALSE))
               /\ UNCHANGED <<trainer_model, setup_completed>>
          ELSE /\ trainer_model' = "YOLO"
               /\ IF trainer_config.model_section /\ trainer_config.train_keys
                  THEN /\ setup_completed' = TRUE
                       /\ trainer_log' =
                             Append(trainer_log, Call("setup_training", "returned", TRUE))
                  ELSE /\ UNCHANGED setup_completed
                       /\ trainer_log' =
                             Append(trainer_log, Call("setup_training", "raised", TRUE))
    /\ UNCHANGED trainer_config

\* a method that tests self.model, then (needs_keys) indexes config['train']
\* while it builds the arguments, then calls the library, which returns or
\* raises
ModelCall(op, needs_keys) ==
    /\ Len(trainer_log) < MaxCalls
    /\ IF trainer_model = "None"
       THEN trainer_log' = Append(trainer_log, Call(op, "ValueError", FALSE))
       ELSE IF needs_keys /\ ~trainer_config.train_keys
       THEN trainer_log' = Append(trainer_log, Call(op, "raised", FALSE))
       ELSE \E outcome \in {"returned", "raised"} :
               trainer_log' = Append(trainer_log, Call(op, outcome, TRUE))
    /\ UNCHANGED <<trainer_config, trainer_model, setup_completed>>

\* train, lines 67-110
Train == ModelCall("train", TRUE)
\* validate, lines 112-126
Validate == ModelCall("validate", FALSE)
\* test, lines 128-162
Test == ModelCall("test", FALSE)
\* export_model, lines 164-184
ExportModel == ModelCall("export_model", TRUE)

ObjNext ==
    \/ ConvertOne /\ UNCHANGED <<fileVars, convVars, splitVars, checkVars, fixVars, inferVars, batchVars, trainVars>>
    \/ CheckVocObject /\ UNCHANGED <<fileVars, convVars, splitVars, checkVars, fixVars, inferVars, batchVars, trainVars>>
FileNext == ProcessOne /\ UNCHANGED <<objVars, convVars, splitVars, checkVars, fixVars, inferVars, batchVars, trainVars>>
ConvNext ==
    \/ ConvertStart /\ UNCHANGED <<objVars, fileVars, splitVars, checkVars, fixVars, inferVars, batchVars, trainVars>>
    \/ ProcessNext /\ UNCHANGED <<objVars, fileVars, splitVars, checkVars, fixVars, inferVars, batchVars, trainVars>>
    \/ SplitReturn /\ UNCHANGED <<objVars, fileVars, splitVars, checkVars, fixVars, inferVars, batchVars, trainVars>>
SplitNext ==
    \/ RejectRatios /\ UNCHANGED <<objVars, fileVars, convVars, checkVars, fixVars, inferVars, batchVars, trainVars>>
    \/ ListAndSplit /\ UNCHANGED <<objVars, fileVars, convVars, checkVars, fixVars, inferVars, batchVars, trainVars>>
    \/ EnterSplit /\ UNCHANGED <<objVars, fileVars, convVars, checkVars, fixVars, inferVars, batchVars, trainVars>>
    \/ CopyFile /\ UNCHANGED <<objVars, fileVars, convVars, checkVars, fixVars, inferVars, batchVars, trainVars>>
SplitTwiceNext ==
    \/ SplitNext
    \/ Reinvoke /\ UNCHANGED <<objVars, fileVars, convVars, checkVars, fixVars, inferVars, batchVars, trainVars>>

CheckNext ==
    \/ CheckStart /\ UNCHANGED <<objVars, fileVars, convVars, splitVars, fixVars, inferVars, batchVars, trainVars>>
    \/ CheckLabelFile /\ UNCHANGED <<objVars, fileVars, convVars, splitVars, fixVars, inferVars, batchVars, trainVars>>
    \/ CheckSummary /\ UNCHANGED <<objVars, fileVars, convVars, splitVars, fixVars, inferVars, batchVars, trainVars>>
    \/ MainExit /\ UNCHANGED <<objVars, fileVars, convVars, splitVars, fixVars, inferVars, batchVars, trainVars>>

FixNext ==
    \/ RunFixAdvanced /\ UNCHANGED <<objVars, fileVars, convVars, splitVars, checkVars, inferVars, batchVars, trainVars>>
    \/ RunFixBasic /\ UNCHANGED <<objVars, fileVars, convVars, splitVars, checkVars, inferVars, batchVars, trainVars>>

InferNext ==
    AnalyzePcbStatus
        /\ UNCHANGED <<objVars, fileVars, convVars, splitVars, checkVars, fixVars,
                       batchVars, trainVars>>

BatchNext ==
    \/ PredictBatchStart /\ UNCHANGED <<objVars, fileVars, convVars, splitVars, checkVars, fixVars, inferVars, trainVars>>
    \/ PredictNextImage /\ UNCHANGED <<objVars, fileVars, convVars, splitVars, checkVars, fixVars, inferVars, trainVars>>
    \/ PredictBatchReturn /\ UNCHANGED <<objVars, fileVars, convVars, splitVars, checkVars, fixVars, inferVars, trainVars>>

TrainNext ==
    \/ SetupTraining /\ UNCHANGED <<objVars, fileVars, convVars, splitVars, checkVars, fixVars, inferVars, batchVars>>
    \/ Train /\ UNCHANGED <<objVars, fileVars, convVars, splitVars, checkVars, fixVars, inferVars, batchVars>>
    \/ Validate /\ UNCHANGED <<objVars, fileVars, convVars, splitVars, checkVars, fixVars, inferVars, batchVars>>
    \/ Test /\ UNCHANGED <<objVars, fileVars, convVars, splitVars, checkVars, fixVars, inferVars, batchVars>>
    \/ ExportModel /\ UNCHANGED <<objVars, fileVars, convVars, splitVars, checkVars, fixVars, inferVars, batchVars>>

InitObject == ObjInit /\ FileIdle /\ ConvIdle /\ SplitIdle /\ CheckIdle /\ FixIdle /\ InferIdle /\ BatchIdle /\ TrainIdle
InitFile == FileInit /\ ObjIdle /\ ConvIdle /\ SplitIdle /\ CheckIdle /\ FixIdle /\ InferIdle /\ BatchIdle /\ TrainIdle
InitConvert == ConvInit /\ ObjIdle /\ FileIdle /\ SplitIdle /\ CheckIdle /\ FixIdle /\ InferIdle /\ BatchIdle /\ TrainIdle
InitSplit == SplitInit /\ ObjIdle /\ FileIdle /\ ConvIdle /\ CheckIdle /\ FixIdle /\ InferIdle /\ BatchIdle /\ TrainIdle
InitCheck == CheckInit /\ ObjIdle /\ FileIdle /\ ConvIdle /\ SplitIdle /\ FixIdle /\ InferIdle /\ BatchIdle /\ TrainIdle
InitFix == FixInit /\ ObjIdle /\ FileIdle /\ ConvIdle /\ SplitIdle /\ CheckIdle /\ InferIdle /\ BatchIdle /\ TrainIdle
InitInfer ==
    InferInit /\ ObjIdle /\ FileIdle /\ ConvIdle /\ SplitIdle /\ CheckIdle /\ FixIdle
        /\ BatchIdle /\ TrainIdle
InitBatch ==
    BatchInit /\ ObjIdle /\ FileIdle /\ ConvIdle /\ SplitIdle /\ CheckIdle /\ FixIdle
        /\ InferIdle /\ TrainIdle
InitTrain ==
    TrainInit /\ ObjIdle /\ FileIdle /\ ConvIdle /\ SplitIdle /\ CheckIdle /\ FixIdle
        /\ InferIdle /\ BatchIdle

SpecObject == InitObject /\ [][ObjNext]_vars
SpecFile == InitFile /\ [][FileNext]_vars
SpecConvert == InitConvert /\ [][ConvNext]_vars
SpecSplit == InitSplit /\ [][SplitNext]_vars
SpecSplitTwice == InitSplit /\ [][SplitTwiceNext]_vars
SpecCheck == InitCheck /\ [][CheckNext]_vars
SpecFix == InitFix /\ [][FixNext]_vars
SpecInfer == InitInfer /\ [][InferNext]_vars
SpecBatch == InitBatch /\ [][BatchNext]_vars
SpecTrain == InitTrain /\ [][TrainNext]_vars

-----------------------------------------------------------------------------
(* Claims on one object (SpecObject) *)

Written == obj_result.kind = "line"
ObjBox == obj.bndbox
IsBox(b) == Len(b) = 4
img_width == img_size[1]
img_height == img_size[2]

\* C1: every line the converter writes, for any box and any positive image
\* size, has its four components x_center, y_center, box_width, box_height
\* in [0,1] (0..1000000 millionths).
C1_ComponentsInUnitRange ==
    Written =>
        \A i \in 2..5 : obj_result.line[i] >= 0 /\ obj_result.line[i] <= Million

\* a line was written for a box that sticks out of the frame on both sides
C1_Witness ==
    /\ Written
    /\ ObjBox[1] < 0
    /\ ObjBox[3] > img_width
    /\ obj_result.line[4] = Million

\* the corners are ordered and lie in the frame
InFrame(b, w, h) ==
    /\ 0 <= b[1] /\ b[1] <= b[3] /\ b[3] <= w
    /\ 0 <= b[2] /\ b[2] <= b[4] /\ b[4] <= h

\* v millionths is the 6-decimal print of n/d: |v/1e6 - n/d| <= 0.5e-6
Prints(v, n, d) ==
    LET diff == v * d - n * Million
    IN  2 * diff <= d /\ 2 * diff >= 0 - d

\* C2: an object of a known class whose box lies in the frame of a W x H
\* image yields one line "<class_id> <x_center> <y_center> <box_width>
\* <box_height>" with x_center=(xmin+xmax)/2/W, y_center=(ymin+ymax)/2/H,
\* box_width=(xmax-xmin)/W, box_height=(ymax-ymin)/H printed to 6 decimals;
\* "missing fastener", box (10,10,50,50) on 100x100 yields
\* "1 0.300000 0.300000 0.400000 0.400000".
C2_LineOfInFrameBox ==
    (/\ obj_result.kind \notin {"pending", "idle"}
     /\ obj.name \in ClassNames
     /\ IsBox(ObjBox)
     /\ img_width > 0 /\ img_height > 0
     /\ InFrame(ObjBox, img_width, img_height))
    =>
    /\ Written
    /\ Len(obj_result.line) = 5
    /\ CLASS_MAPPING[obj_result.line[1]] = obj.name
    /\ Prints(obj_result.line[2], ObjBox[1] + ObjBox[3], 2 * img_width)
    /\ Prints(obj_result.line[3], ObjBox[2] + ObjBox[4], 2 * img_height)
    /\ Prints(obj_result.line[4], ObjBox[3] - ObjBox[1], img_width)
    /\ Prints(obj_result.line[5], ObjBox[4] - ObjBox[2], img_height)
    /\ (obj.name = "missing fastener" /\ img_size = ScenarioSize
          /\ ObjBox = ScenarioBox)
        => obj_result.line = <<1, 300000, 300000, 400000, 400000>>

\* the scenario line has been written
C2_Witness ==
    /\ Written
    /\ obj.name = "missing fastener"
    /\ img_size = ScenarioSize
    /\ ObjBox = ScenarioBox
    /\ obj_result.line = <<1, 300000, 300000, 400000, 400000>>

\* the box invariants of the data model: ordered corners, area >= 4
BoxInvariants(b) ==
    /\ b[1] < b[3]
    /\ b[2] < b[4]
    /\ (b[3] - b[1]) * (b[4] - b[2]) >= MinArea

\* C3: the converter never writes a label line for a box that violates the
\* box invariants (xmin >= xmax, ymin >= ymax, or area < 4): such a box is
\* dropped, not coerced into a clamped record.
C3_InvalidBoxNeverWritten ==
    Written => BoxInvariants(ObjBox)

-----------------------------------------------------------------------------
(* Claims on one file (SpecFile) *)

KnownClass(o) == o.name \in ClassNames
FileObjs == xml_file.xml.objects
FileW == xml_file.xml.size[1]
FileH == xml_file.xml.size[2]
\* the objects of the file that have a known class
KnownObjs == SelectSeq(FileObjs, KnownClass)
\* the objects of the file that have a known class and a box
KnownBoxed == SelectSeq(FileObjs, LAMBDA o : KnownClass(o) /\ IsBox(o.bndbox))
\* no object of the file makes the loop raise
NoObjectRaises ==
    /\ FileW > 0 /\ FileH > 0
    /\ \A i \in 1..Len(FileObjs) :
          FileObjs[i].name # NoElement /\ FileObjs[i].bndbox # BadBox

\* C10: an object whose class name is not in the table is skipped alone:
\* the label file holds what it would hold without the unknown objects,
\* and, when no object raises, one line for every other object with a
\* known class (and a box), in source order.
C10_UnknownClassSkippedAlone ==
    file_result.step \in {"done", "error"} /\ file_result.opened =>
        /\ file_result.lines =
             ObjLoop(SelectSeq(FileObjs, LAMBDA o : o.name \in ClassNames \cup {NoElement}),
                     FileW, FileH).lines
        /\ NoObjectRaises =>
             /\ file_result.step = "done"
             /\ Len(file_result.lines) = Len(KnownBoxed)
             /\ \A i \in 1..Len(KnownBoxed) :
                   file_result.lines[i] =
                      <<LookupClass(KnownBoxed[i].name)>>
                         \o NormalizeBox(KnownBoxed[i].bndbox, FileW, FileH)

\* an unknown object stands between two known ones and exactly the two
\* known ones were written, in their order
C10_Witness ==
    /\ file_result.step = "done"
    /\ Len(FileObjs) = 3
    /\ FileObjs[1] = [name |-> "missing fastener", bndbox |-> <<0, 0, 2, 2>>]
    /\ FileObjs[2].name = "scratch"
    /\ FileObjs[3] = [name |-> "board body", bndbox |-> <<1, 1, 4, 3>>]
    /\ file_result.lines = << <<1, 250000, 250000, 500000, 500000>>,
                              <<3, 625000, 500000, 750000, 500000>> >>

-----------------------------------------------------------------------------
(* Claims on a conversion run (SpecConvert) *)

\* the annotation lacks the size block or the image file name
LacksSizeOrFilename(x) ==
    /\ x.exists /\ x.parses
    /\ x.size = NoSize \/ x.filename \in {NoElement, NoText}

SplitFinished(s) ==
    conv_pc = "done" \/ (s = "train" /\ conv_pc = "val")

\* the entries of the list of split s the loop has gone through
Processed(s) ==
    IF conv_pc = s THEN SubSeq(file_list[s], 1, file_idx - 1)
    ELSE IF SplitFinished(s) THEN file_list[s]
    ELSE <<>>

\* the output of a split after the iterations for file_bases, in order
RECURSIVE Replay(_, _)
Replay(file_bases, out) ==
    IF file_bases = <<>> THEN out
    ELSE Replay(Tail(file_bases), ApplyFile(out, Head(file_bases)))

\* C9: a file that lacks the size block or the image filename is skipped
\* whole (no label file, no image copy), nothing is raised to the caller,
\* and the output of its split is what the other files of the list give
\* without it.
C9_StructuralFailureSkipsFile ==
    /\ conv_pc = "failed" => \E s \in Splits : ~imagesets[s].exists
    /\ conv_pc \in {"train", "val", "done"} =>
         \A s \in Splits :
            LET others == SelectSeq(Processed(s),
                             LAMBDA k : ~LacksSizeOrFilename(voc_annotations[k]))
                expected == Replay(others, EmptyOutput)
            IN  /\ out_labels[s] = expected.labels
                /\ out_images[s] = expected.images
                /\ processed_count[s] = expected.count
                /\ \A k \in Keys :
                      LacksSizeOrFilename(voc_annotations[k])
                         => ~out_labels[s][k].present

\* the train list names a file without size block before a sound file; the
\* run ended with the label and the image of the sound file only
C9_Witness ==
    /\ conv_pc = "done"
    /\ file_list["train"] = <<"a", "b">>
    /\ voc_annotations["a"].size = NoSize /\ voc_annotations["a"].exists
    /\ ~out_labels["train"]["a"].present
    /\ out_labels["train"]["b"].present
    /\ out_images["train"] = {"b.jpg"}
    /\ processed_count["train"] = 1

-----------------------------------------------------------------------------
(* Claims on the ratio-based split (SpecSplit, SpecSplitTwice) *)

ListedImages == {f \in input_images : IsImageFile(f)}
\* the sample keys of the input: the base names of its image files
SampleKeys == {f[1] : f \in ListedImages}
\* how often key k stands in the list q
Count(q, k) == Cardinality({i \in 1..Len(q) : q[i] = k})
AllSplitFiles == split_files.train \o split_files.val \o split_files.test
DistinctBaseNames ==
    \A f, g \in ListedImages : f[1] = g[1] => f = g
\* every key stands in exactly one of the three lists, once
ExactPartition ==
    /\ Range(AllSplitFiles) = SampleKeys
    /\ \A k \in SampleKeys : Count(AllSplitFiles, k) = 1

C5_SameMembershipAcrossRuns ==
    invocation = 2 /\ split_pc \in {"copy", "done"} /\ DistinctBaseNames =>
        /\ Range(split_files.train) = Range(first_files.train)
        /\ Range(split_files.val) = Range(first_files.val)
        /\ Range(split_files.test) = Range(first_files.test)

-----------------------------------------------------------------------------
(* Claims on the dataset checker (SpecCheck) *)

Returned == check_pc \in {"returned", "exited"}
\* the keys on each side, read off the two directories
LabelKeys == {f[1] : f \in {g \in labels_dir.files : g[2] = "txt"}}
ImageKeys ==
    {f[1] : f \in {g \in images_dir.files : Lower(g[2]) \in {"jpg", "jpeg", "png"}}}
LabelKeysWithoutImage == LabelKeys \ ImageKeys
ImageKeysWithoutLabel == ImageKeys \ LabelKeys
FlaggedFiles == Range(error_files)
ExitCodeFollowsVerdict ==
    check_pc = "exited" => (exit_code = 0 <=> success = "True")

\* C6 as stated: the checker returns pass if and only if no label key lacks
\* an image, no image key lacks a label and no label file was flagged; the
\* exit code is 0 exactly when the verdict is pass.
C6_PassIffNothingMissingOrFlagged ==
    /\ Returned =>
          (success = "True" <=>
              /\ LabelKeysWithoutImage = {}
              /\ ImageKeysWithoutLabel = {}
              /\ FlaggedFiles = {})
    /\ ExitCodeFollowsVerdict

\* C6, amended: the checker returns pass if and only if both directories
\* exist, no label key lacks an image, no image key lacks a label and no
\* label file was flagged; the exit code is 0 exactly when the verdict is
\* pass.
C6_PassIffScannedAndClean ==
    /\ Returned =>
          (success = "True" <=>
              /\ images_dir.exists /\ labels_dir.exists
              /\ LabelKeysWithoutImage = {}
              /\ ImageKeysWithoutLabel = {}
              /\ FlaggedFiles = {})
    /\ ExitCodeFollowsVerdict

\* both pairs present, both label files clean, two objects counted: exit 0
C6_Witness ==
    /\ check_pc = "exited" /\ exit_code = 0
    /\ common_files = {"a", "b"}
    /\ labels_dir.content["a"].lines = <<GoodLine1>>
    /\ labels_dir.content["b"].lines = <<GoodLine3>>

\* a line fails validation: not 5 tokens, a first token that is no class id
\* of the table, or a coordinate token that is no number in [0,1]
ClassIdTokens == <<"0", "1", "2", "3">>
UnitTokens == {"0", "1", "0.5", "1.0"}
LineFails(parts) ==
    IF Len(parts) # 5 THEN TRUE
    ELSE \/ parts[1] \notin Range(ClassIdTokens)
         \/ \E i \in 2..5 : parts[i] \notin UnitTokens
SomeLineFails(k) ==
    \E i \in 1..Len(labels_dir.content[k].lines) :
        LineFails(labels_dir.content[k].lines[i])

\* C7 as stated: a label file is flagged as an error file if and only if at
\* least one of its lines fails validation.
C7_FlaggedIffSomeLineFails ==
    Returned /\ images_dir.exists /\ labels_dir.exists =>
        \A k \in LabelKeys : k \in FlaggedFiles <=> SomeLineFails(k)

\* C7, amended: a label file is flagged as an error file if and only if its
\* key also has an image and either the file cannot be read or at least one
\* of its lines fails validation.
C7_PairedFileFlaggedIffUnreadableOrLineFails ==
    Returned /\ images_dir.exists /\ labels_dir.exists =>
        \A k \in LabelKeys :
            k \in FlaggedFiles <=>
                /\ k \in ImageKeys
                /\ ~labels_dir.content[k].readable \/ SomeLineFails(k)

\* a.txt holds a good line and a line of class 7 and is flagged; b.txt is
\* clean and is not
C7_Witness ==
    /\ Returned
    /\ common_files = {"a", "b"}
    /\ labels_dir.content["a"].lines = <<GoodLine1, ClassSeven>>
    /\ labels_dir.content["b"].lines = <<GoodLine3>>
    /\ FlaggedFiles = {"a"}

\* the lines of file k that pass all validations and carry class id
PassingLines(k, id) ==
    Cardinality({i \in 1..Len(labels_dir.content[k].lines) :
        /\ ~LineFails(labels_dir.content[k].lines[i])
        /\ labels_dir.content[k].lines[i][1] = ClassIdTokens[id + 1]})
RECURSIVE PassingLinesOver(_, _)
PassingLinesOver(S, id) ==
    IF S = {} THEN 0
    ELSE LET k == CHOOSE x \in S : TRUE
         IN  PassingLines(k, id) + PassingLinesOver(S \ {k}, id)

\* C8: the count of each class equals the number of lines that pass all
\* validations, summed over the label files checked so far, flagged or not.
C8_CountsEveryPassingLine ==
    check_pc \in {"scan", "returned", "exited"} =>
        \A id \in DOMAIN CLASS_MAPPING :
            class_distribution[id] =
                PassingLinesOver(common_files \ unchecked, id)

\* a.txt holds a line of 4 tokens followed by a good line: the file is
\* flagged and the good line is counted
C8_Witness ==
    /\ Returned
    /\ "a" \in common_files
    /\ labels_dir.content["a"].lines = <<FourTokens, GoodLine1>>
    /\ "a" \in FlaggedFiles
    /\ class_distribution[1] >= 1

-----------------------------------------------------------------------------
(* Claims on the box repair functions (SpecFix) *)

IsNumericBox(b) == Len(b) = 4
Inverted(b) == b[1] >= b[3] \/ b[2] >= b[4]
\* the endpoints of each inverted axis change places
SwapInverted(b) ==
    <<IF b[1] >= b[3] THEN b[3] ELSE b[1],
      IF b[2] >= b[4] THEN b[4] ELSE b[2],
      IF b[1] >= b[3] THEN b[1] ELSE b[3],
      IF b[2] >= b[4] THEN b[2] ELSE b[4]>>
\* well-ordered, inside the frame, of area >= 4
ValidBox(b, w, h) ==
    /\ BoxInvariants(b)
    /\ 0 <= b[1] /\ 0 <= b[2] /\ b[3] <= w /\ b[4] <= h
FixCalled == fix_log # <<>> /\ fix_returned # "False"

\* C11: a box inverted on an axis is repaired by swapping the endpoints of
\* that axis and re-validated: after a repair call, every inverted box of
\* the source file whose swapped form is valid stands in the file in its
\* swapped form, and an inverted box is gone only if its swapped form
\* fails the frame or area rule.
C11_InvertedBoxRepairedBySwap ==
    FixCalled /\ fix_source.parses /\ Len(fix_source.size) = 2 /\
    (\A i \in 1..Len(fix_source.boxes) : fix_source.boxes[i] # BadBox) =>
        \A i \in 1..Len(fix_source.boxes) :
            LET b == fix_source.boxes[i]
            IN  IsNumericBox(b) /\ Inverted(b)
                /\ ValidBox(SwapInverted(b), fix_source.size[1], fix_source.size[2])
                => \E j \in 1..Len(fix_xml.boxes) : fix_xml.boxes[j] = SwapInverted(b)

-----------------------------------------------------------------------------
(* Claims on degenerate image sizes (SpecObject) *)

\* C18: no record computed from an image width or height below 1 pixel is
\* ever written: such a size makes the normalisation fail.
C18_NoLineFromDegenerateSize ==
    obj_result.kind = "line" => img_width >= 1 /\ img_height >= 1

-----------------------------------------------------------------------------
(* Further claims on a conversion run (SpecConvert) *)

ConvRunning == conv_pc \in {"train", "val", "done"}
\* the object loop of annotation x runs to its end
LoopCompletes(x) ==
    \A i \in 1..Len(x.objects) :
        LET o == x.objects[i]
        IN  /\ o.name # NoElement
            /\ (o.name \in ClassNames /\ o.bndbox # NoBox)
                  => o.bndbox # BadBox /\ x.size[1] # 0 /\ x.size[2] # 0
\* the annotation is read and converted without a skip or an exception
Sound(x) ==
    /\ x.exists /\ x.parses
    /\ Len(x.size) = 2
    /\ x.filename \notin {NoElement, NoText}
    /\ LoopCompletes(x)
\* the objects of x that have a known class and a box
Convertible(x) ==
    {i \in 1..Len(x.objects) :
        x.objects[i].name \in ClassNames /\ x.objects[i].bndbox # NoBox}
ImageMissing(k) ==
    Sound(voc_annotations[k]) /\ voc_annotations[k].filename \notin voc_images
\* the places of q that hold a sample for which P holds
Places(q, P(_)) == {i \in 1..Len(q) : P(q[i])}
CopyFailures(s) == Cardinality(Places(Processed(s), ImageMissing))
ImageFound(k) ==
    Sound(voc_annotations[k]) /\ voc_annotations[k].filename \in voc_images

BaseName(name) ==
    CASE name = "a.jpg" -> "a"
      [] name = "b.jpg" -> "b"
      [] name = OtherImage -> "frame_a"

\* C13: in every split directory of the converter's output, the label file
\* of a sample whose image was copied has the base name of an image file
\* stored in the same split.
C13_LabelHasImageOfSameBaseName ==
    ConvRunning =>
        \A s \in Splits : \A i \in 1..Len(Processed(s)) :
            LET k == Processed(s)[i]
            IN  out_labels[s][k].present /\ ImageFound(k) =>
                    \E name \in out_images[s] : BaseName(name) = k

\* C14: for any contents of the train and val list files, no sample key is
\* written to both the train and the val output.
C14_NoKeyInBothOutputs ==
    ConvRunning =>
        \A k \in Keys :
            ~(out_labels["train"][k].present /\ out_labels["val"][k].present)

\* C15: when a split list file does not exist the converter fails before
\* anything is written to the output location: no directory, no label
\* file, no image.
C15_MissingListFailsBeforeAnyWrite ==
    /\ (conv_pc # "start" /\ \E s \in Splits : ~imagesets[s].exists)
          => conv_pc = "failed"
    /\ conv_pc = "failed" =>
          /\ ~out_dirs
          /\ \A s \in Splits :
                /\ out_images[s] = {}
                /\ \A k \in Keys : ~out_labels[s][k].present

Listed(k) == \E s \in Splits : k \in Range(imagesets[s].lines)

\* C17: a sample key that has an annotation file but stands in no split
\* list produces no label file and no image copy in either output, and the
\* run raises no error because of it.
C17_UnlistedKeyProducesNothing ==
    /\ conv_pc = "failed" => \E s \in Splits : ~imagesets[s].exists
    /\ \A k \in Keys :
          voc_annotations[k].exists /\ ~Listed(k) =>
              \A s \in Splits :
                  /\ ~out_labels[s][k].present
                  /\ \A name \in out_images[s] :
                        name # voc_annotations[k].filename

\* b has a sound annotation and an image and stands in no list; the run
\* ended with the output of a alone
C17_Witness ==
    /\ conv_pc = "done"
    /\ ImageFound("b") /\ ~Listed("b")
    /\ file_list["train"] = <<"a">>
    /\ out_labels["train"]["a"].present
    /\ out_images["train"] = {"a.jpg"}
    /\ out_images["val"] = {}

-----------------------------------------------------------------------------
(* Further claims on the ratio-based split (SpecSplit) *)

RatioSum == ratios[1] + ratios[2] + ratios[3]
\* the three ratios sum to 1.0 within 1e-5
SumsToOne == RatioSum <= Million + Tolerance /\ RatioSum >= Million - Tolerance

\* C16: when the ratios do not sum to 1.0 within 1e-5 the split fails with
\* the ratio error before the input is read and before anything is
\* written: no output directory, no image, no label.
C16_BadRatiosFailBeforeAnyAccess ==
    (split_pc # "start" /\ ~SumsToOne) =>
        /\ split_pc = "failed"
        /\ ~input_read
        /\ split_files = NoSplitFiles
        /\ split_out = NoSplitOut

\* the ratios sum to 1.05 over an input of three or more samples: the call
\* has failed with nothing read
C16_Witness ==
    /\ split_pc = "failed"
    /\ RatioSum > Million + Tolerance
    /\ Cardinality(input_images) >= 4
    /\ ~input_read

-----------------------------------------------------------------------------
(* Claims on the PCB status rule (SpecInfer) *)

Analyzed == pcb_status \notin {"pending", "idle"}
Detections == Range(result.cls)
MissingFastenerAndBoard ==
    /\ LookupClass("missing fastener") \in Detections
    /\ LookupClass("board body") \in Detections

-----------------------------------------------------------------------------
(* Further claims on the dataset checker (SpecCheck) *)

\* C20: the checker never mutates the dataset: no step of check_yolo_dataset
\* or of its command line changes the images store or the labels store,
\* whatever they hold.
C20_CheckerLeavesDatasetUnchanged ==
    [][images_dir' = images_dir /\ labels_dir' = labels_dir]_vars

\* the check has run to its exit over a label file with a 4-token line and
\* a line of class 7, and has flagged it
C20_Witness ==
    /\ check_pc = "exited" /\ exit_code = 1
    /\ labels_dir.content["a"].lines = <<FourTokens, ClassSeven>>
    /\ "a" \in FlaggedFiles

-----------------------------------------------------------------------------
(* Claims on the round trip of the normalisation (SpecObject) *)

\* v millionths, multiplied back by dim pixels, is n/d pixels to within
\* half a millionth of dim: |v * dim / 1e6 - n / d| <= dim / 2e6
MultipliesBackTo(v, dim, n, d) ==
    LET diff == v * dim * d - n * Million
    IN  2 * diff <= dim * d /\ 2 * diff >= 0 - dim * d
\* the written line, multiplied back, gives the centre and the size of b
RoundTrip(line, b, w, h) ==
    /\ MultipliesBackTo(line[2], w, b[1] + b[3], 2)
    /\ MultipliesBackTo(line[3], h, b[2] + b[4], 2)
    /\ MultipliesBackTo(line[4], w, b[3] - b[1], 1)
    /\ MultipliesBackTo(line[5], h, b[4] - b[2], 1)
\* a centre or a size of b lies outside [0,1] of the image: the clamp acts
ClampTriggered(b, w, h) ==
    \/ b[1] + b[3] < 0 \/ b[1] + b[3] > 2 * w
    \/ b[2] + b[4] < 0 \/ b[2] + b[4] > 2 * h
    \/ b[3] - b[1] < 0 \/ b[3] - b[1] > w
    \/ b[4] - b[2] < 0 \/ b[4] - b[2] > h

\* C21: for every valid box inside the image, the written values multiplied
\* back by the image width and height give the original centre and size to
\* within the precision of the 6 printed decimals; for any box on a
\* positive image size the law fails only when the clamp was triggered.
C21_RoundTripUnlessClamped ==
    Written /\ img_width > 0 /\ img_height > 0 =>
        /\ (BoxInvariants(ObjBox) /\ InFrame(ObjBox, img_width, img_height))
              => RoundTrip(obj_result.line, ObjBox, img_width, img_height)
        /\ ~RoundTrip(obj_result.line, ObjBox, img_width, img_height)
              => ClampTriggered(ObjBox, img_width, img_height)

\* box (0,0,2,2) on a 3x3 image is written as 0.333333 0.333333 0.666667
\* 0.666667, values that are not exact
C21_Witness ==
    /\ Written
    /\ img_size = <<3, 3>>
    /\ ObjBox = <<0, 0, 2, 2>>
    /\ obj_result.line = <<1, 333333, 333333, 666667, 666667>>

-----------------------------------------------------------------------------
(* Claims on the order of the stages of one conversion run (SpecConvert) *)

\* this step is the iteration of process_split that reads Annotations/k.xml
ReadNow(k) ==
    /\ conv_pc \in Splits
    /\ file_idx <= Len(file_list[conv_pc])
    /\ file_list[conv_pc][file_idx] = k
    /\ file_idx' = file_idx + 1
\* the iteration for k ends in one of the "skip" branches (lines 81-83,
\* 91-93, 100-102)
SkippedFile(k) ==
    FileIteration(voc_annotations[k], voc_annotations[k].filename \in voc_images).step
        \in {"no xml", "no size", "no filename"}
\* a label file of key k exists in the output of some split
LabelWritten(k) == \E s \in Splits : out_labels[s][k].present

\* C22: within one run a file only moves forward: the iteration that skips
\* a file leaves no label of it, and a file whose label has been written is
\* never read or written again.
C22_StagesOnlyForward ==
    [][\A k \in Keys :
          ReadNow(k) =>
              /\ SkippedFile(k) => ~out_labels'[conv_pc][k].present
              /\ ~LabelWritten(k)]_vars

-----------------------------------------------------------------------------
(* Claims on the sizes of the three splits (SpecSplit) *)

\* the sizes that n list entries and the ratios r give: the second and third
\* part together take the ceiling of their share, the third part the ceiling
\* of its share of those
SplitSizes(n, r) ==
    LET n_temp == Ceil(n * (r[2] + r[3]), Million)
        n_test == Ceil(n_temp * r[3], r[2] + r[3])
    IN  <<n - n_temp, n_temp - n_test, n_test>>
ScenarioRatios == <<700000, 150000, 150000>>
SplitLengths ==
    <<Len(split_files.train), Len(split_files.val), Len(split_files.test)>>

-----------------------------------------------------------------------------
(* Claims on boxes outside the image frame (SpecObject) *)

VocCheckedObj == voc_check.kind = "checked"
WellOrdered(b) == b[1] < b[3] /\ b[2] < b[4]
OutOfFrame(b, w, h) == b[1] < 0 \/ b[2] < 0 \/ b[3] > w \/ b[4] > h

\* C24: a box with xmin < xmax and ymin < ymax that extends outside the
\* image frame is warn-only in the check of the source dataset: its file is
\* not added to the error files, the object is counted in the class and in
\* the box statistics, and the converter still writes its line (for a known
\* class and an image size that is not zero).
C24_OutOfFrameIsWarnOnly ==
    /\ VocCheckedObj
    /\ obj_result.kind \notin {"pending", "idle"}
    /\ obj.name # NoElement
    /\ IsBox(ObjBox)
    /\ WellOrdered(ObjBox)
    /\ OutOfFrame(ObjBox, img_width, img_height)
    => /\ voc_check.warned
       /\ ~voc_check.error
       /\ voc_check.class_counted
       /\ voc_check.box_counted
       /\ (KnownClass(obj) /\ img_width # 0 /\ img_height # 0) => Written

\* box (0,0,5,2) on a 4x4 image passed the check with a warning and was
\* written with the clamped width
C24_Witness ==
    /\ VocCheckedObj
    /\ img_size = <<4, 4>>
    /\ ObjBox = <<0, 0, 5, 2>>
    /\ voc_check.warned
    /\ ~voc_check.error
    /\ voc_check.box_counted
    /\ Written
    /\ obj_result.line[4] = Million

-----------------------------------------------------------------------------
(* Claims on the repair pass fix_invalid_bbox_advanced (SpecFix) *)

\* the last call on the file was fix_invalid_bbox_advanced and it returned
\* True
AdvancedSucceeded ==
    /\ fix_log # <<>>
    /\ fix_log[Len(fix_log)] = "advanced"
    /\ fix_returned = "True"
\* the complete numeric boxes of q that pass the four rules, in order
ValidBoxesOf(q, w, h) ==
    SelectSeq(q, LAMBDA b : IsNumericBox(b) /\ ValidBox(b, w, h))

\* C25: after fix_invalid_bbox_advanced has succeeded on a file, every
\* object left with a complete numeric box has xmin < xmax, ymin < ymax,
\* lies inside [0,width] x [0,height] and has area >= 4; and the pass has
\* removed no object that satisfied the four conditions before it.
C25_RepairLeavesOnlyValidBoxes ==
    AdvancedSucceeded =>
        /\ \A j \in 1..Len(fix_xml.boxes) :
              IsNumericBox(fix_xml.boxes[j])
                  => ValidBox(fix_xml.boxes[j], fix_xml.size[1], fix_xml.size[2])
        /\ fix_log = <<"advanced">> =>
              ValidBoxesOf(fix_xml.boxes, fix_xml.size[1], fix_xml.size[2])
                  = ValidBoxesOf(fix_source.boxes, fix_source.size[1],
                                 fix_source.size[2])

\* a file with a valid box, a box of area 1 and a box without xmin: the
\* pass removed the second only
C25_Witness ==
    /\ fix_log = <<"advanced">>
    /\ fix_returned = "True"
    /\ fix_source.boxes = <<<<0, 0, 2, 2>>, <<1, 1, 2, 2>>, PartialBox>>
    /\ fix_xml.boxes = <<<<0, 0, 2, 2>>, PartialBox>>

\* no object of the source file goes to objects_to_remove
CleanSource ==
    \A i \in 1..Len(fix_source.boxes) :
        ~ToRemove(fix_source.boxes[i], fix_source.size[1], fix_source.size[2])

\* C30: the repair pass leaves clean files untouched and is idempotent:
\* when no object of the file is invalid the file is not rewritten, and a
\* second call of fix_invalid_bbox_advanced on the file it has repaired
\* removes nothing and does not rewrite the file.
C30_RepairIsIdempotent ==
    /\ (fix_log = <<"advanced">> /\ fix_returned = "True" /\ CleanSource)
          => ~fix_written /\ fix_xml = fix_source
    /\ (fix_log = <<"advanced", "advanced">> /\ fix_returned = "True")
          => /\ ~fix_written
             /\ fix_xml = FixInvalidBboxAdvanced(fix_source).xml
             /\ FixInvalidBboxAdvanced(fix_xml).fixed_count = 0

\* the second call on a file whose first call removed an inverted box
C30_Witness ==
    /\ fix_log = <<"advanced", "advanced">>
    /\ fix_returned = "True"
    /\ fix_source.boxes = <<<<3, 1, 1, 3>>, <<0, 0, 2, 2>>>>
    /\ fix_xml.boxes = <<<<0, 0, 2, 2>>>>
    /\ ~fix_written

-----------------------------------------------------------------------------
(* Claims on the label files a conversion run leaves (SpecConvert) *)

\* the objects of the annotation of key k that have a known class and a
\* bndbox element
ConvertibleObjects(k) ==
    SelectSeq(voc_annotations[k].objects,
              LAMBDA o : KnownClass(o) /\ o.bndbox # NoBox)

\* C26: after the run, the label file of every key is either absent or
\* complete, with one line for every object of the annotation that has a
\* known class and a box; a failure raised while a file is processed
\* (malformed box field, zero image size) leaves no partly written or empty
\* label file.
C26_LabelAbsentOrComplete ==
    conv_pc = "done" =>
        \A s \in Splits : \A k \in Keys :
            out_labels[s][k].present
                => Len(out_labels[s][k].lines) = Len(ConvertibleObjects(k))

-----------------------------------------------------------------------------
(* Claims on the counters of predict_batch (SpecBatch) *)

BatchReturned == batch_pc = "returned"
\* the images for which predict_single returned its triple
Predicted == {i \in 1..Len(batch_images) : ~PredictSingle(batch_images[i]).raised}

\* C28: predict_single returns a PCB status that is 'normal' or 'abnormal',
\* so predict_batch counts every image whose prediction succeeded in
\* exactly one of the two counters: normal + abnormal is the number of
\* images processed without a prediction error.
C28_EveryPredictedImageCounted ==
    BatchReturned =>
        /\ \A i \in Predicted :
              PredictSingle(batch_images[i]).pcb_status \in {"normal", "abnormal"}
        /\ status_count.normal + status_count.abnormal = Cardinality(Predicted)

-----------------------------------------------------------------------------
(* Claims on label files without an image (SpecCheck) *)

PairedKeys == LabelKeys \cap ImageKeys

\* C29: the checker validates the content of a label file only when an
\* image of the same key exists: a label file without an image is reported
\* among the labels that lack an image, its lines add nothing to the error
\* files or to the class counts, and it does not stop the validation of the
\* paired files, each of which is visited and flagged by its own content.
C29_DanglingLabelOnlyReported ==
    Returned /\ images_dir.exists /\ labels_dir.exists =>
        /\ missing_images = LabelKeysWithoutImage
        /\ FlaggedFiles \cap LabelKeysWithoutImage = {}
        /\ \A id \in DOMAIN CLASS_MAPPING :
              class_distribution[id] = PassingLinesOver(PairedKeys, id)
        /\ unchecked = {}
        /\ \A k \in PairedKeys :
              k \in FlaggedFiles <=>
                  ~labels_dir.content[k].readable \/ SomeLineFails(k)

\* a.txt has no image and holds a good line and a line of class 7; b.txt is
\* paired and clean: only b is validated and counted
C29_Witness ==
    /\ Returned
    /\ missing_images = {"a"}
    /\ labels_dir.content["a"].lines = <<GoodLine1, ClassSeven>>
    /\ common_files = {"b"}
    /\ labels_dir.content["b"].lines = <<GoodLine3>>
    /\ FlaggedFiles = {}
    /\ class_distribution[1] = 0
    /\ class_distribution[3] = 1

-----------------------------------------------------------------------------
(* Claims on the Trainer (SpecTrain) *)

ModelOps == {"train", "validate", "test", "export_model"}
\* this step is a call of one of the methods that need the model
ModelOpCalled ==
    /\ Len(trainer_log') = Len(trainer_log) + 1
    /\ trainer_log'[Len(trainer_log')].op \in ModelOps

\* C27: train, validate, test and export_model raise ValueError without
\* calling the detection library when they are called before setup_training
\* has completed; once setup_training has completed the model stays set for
\* every later call.
C27_ModelOpsGuardedUntilSetupCompletes ==
    [][/\ (ModelOpCalled /\ ~setup_completed) =>
             /\ trainer_log'[Len(trainer_log')].outcome = "ValueError"
             /\ ~trainer_log'[Len(trainer_log')].lib_called
       /\ (setup_completed \/ setup_completed') => trainer_model' = "YOLO"]_vars
====
